---- MODULE Spec2Model ----
(***************************************************************************)
(* MindSieve RAG pipeline: safety guard and query enhancer, client/secret  *)
(* bootstrap, the chat request pipeline with its answer stream and the    *)
(* page that reads it, the study card generator, the card listing and     *)
(* enqueue endpoints, the session store and the enhancer cache.            *)
(*                                                                         *)
(* Text is modelled at the granularity the code inspects it:                *)
(*  - a query is a sequence of tokens, alternately words and whitespace     *)
(*    runs (the unsafe patterns are word-level regular expressions);        *)
(*  - identifiers and answers are sequences of characters, so that the      *)
(*    '|'-joined hash input of the card id is computed as the code does;    *)
(*  - the model's answer text is the character sequence 1, 2, 3, ... so     *)
(*    that "the prefix that fits" is observable.                            *)
(***************************************************************************)
EXTENDS Integers, Sequences, FiniteSets, TLC

VARIABLES
  \* ---- enhanceQuery invocation (src/server/chat/enhancer.ts) ----
  query,            \* the query string (token sequence)
  enhPc,            \* "idle" | "start" | "await" | "done"
  enhRes,           \* EnhanceResult
  enhModelCalls,    \* generateContent calls made by this invocation
  enhOut,           \* how the pending generateContent call settled, if it did
  \* ---- module-scoped singletons of the chat route ----
  clients,          \* TRUE once { vertexAI, esClient } is cached
  secretCache,      \* NoSecret or the cached secret value
  fetchingSecrets,  \* the in-flight flag
  secretWaiters,    \* resolvers queued by coalesced callers
  secretStore,      \* the secret manager: "down" or the current secret version
  fetchStarted,     \* number of secret-store fetches started so far
  bpc,              \* per request: position inside initializeClients/getSecrets
  bgot,             \* per request: the secrets value getSecrets resolved with
  \* ---- one chat request (POST /api/chat) ----
  chatPc,           \* position of the handler
  calls,            \* external calls made by the current request
  embedLog,         \* embedding endpoints tried, in order
  rawHits,          \* the search response, once it has arrived
  hits,             \* hit list after the topic filter
  out,              \* chunks handed to the response body, in order
  emitted,          \* the handler's emitted-character counter
  upstream,         \* characters of model text pulled from the model stream
  ctrl,             \* the ReadableStream controller
  resp,             \* the response: status and outcome
  \* ---- the document store and generateAndStoreCard calls ----
  study_cards,      \* collection study_cards: document name -> card
  turns,            \* collection turns: turn id -> turn document
  clock,            \* wall-clock time in milliseconds
  useGrounding,     \* CARD_USE_SEARCH_GROUNDING === '1'
  gpc,              \* per process: position inside generateAndStoreCard
  gloc,             \* per process: the locals of the call in progress
  glog,             \* the calls that have ended, with their results
  \* ---- one listing request (GET /api/cards) ----
  listReq,          \* the route version and the query parameters
  listResp,         \* the response
  \* ---- one card-enqueue request (POST /api/cards/enqueue) ----
  enqEnv,           \* route version, and IS_CLOUD_RUN && !FORCE_SYNC
  enqPc,            \* position of the handler
  enqPayload,       \* the parsed request body
  enqTask,          \* how the task creation settled: "none" | "created" | "failed"
  enqResp,          \* the response
  \* ---- ensureSession (src/server/auth/context.ts) ----
  sessions,         \* collection sessions: session id -> session document
  contact,          \* the cookies presented by the latest contact
  newIds,           \* number of newId() session ids issued so far
  \* ---- strengthenQuery and its module-level cache ----
  ENHANCER_CACHE,   \* Map: normalized query -> [value, expiresAt]
  strPc,            \* position of the call: "idle" | "await"
  strQuery,         \* the query of the call in progress
  strRes            \* what the latest call returned, and whether from the cache

enhVars  == <<query, enhPc, enhRes, enhModelCalls, enhOut>>
bootVars == <<clients, secretCache, fetchingSecrets, secretWaiters, secretStore,
              fetchStarted, bpc, bgot>>
chatVars == <<chatPc, calls, embedLog, rawHits, hits, out, emitted, upstream, ctrl, resp>>
cardVars == <<study_cards, turns, clock, useGrounding, gpc, gloc, glog>>
listVars == <<listReq, listResp>>
enqVars  == <<enqEnv, enqPc, enqPayload, enqTask, enqResp>>
sessVars == <<sessions, contact, newIds>>
cacheVars == <<ENHANCER_CACHE, strPc, strQuery, strRes>>
auxVars == <<sessVars, cacheVars>>
vars == <<enhVars, bootVars, chatVars, cardVars, listVars, enqVars, auxVars>>

(***************************************************************************)
(* Bounds of the model.                                                    *)
(***************************************************************************)
MaxQueryLen == 5      \* tokens in a query handed to enhanceQuery directly
MaxChatQueryLen == 1  \* tokens in a query posted to the chat endpoint
MaxKeywords == 1      \* keywords the enhancer model may return
MaxHits == 4          \* hits in a search response
MaxParts == 2         \* parts in one item of the model stream
MaxChunk == 2         \* characters in one part
MaxUpstream == 5     \* characters the model stream produces at most
MaxFetches == 3       \* secret fetches counted before the model stops
MaxCalls == 2         \* generateAndStoreCard calls
MaxClock == 2         \* milliseconds the clock runs through
MaxSessions == 2      \* session ids issued by newId()
MaxLimit == 2         \* page size of a listing request

(***************************************************************************)
(* Queries as token sequences.                                             *)
(***************************************************************************)
Seps  == {"sp", "nl"}
Words == {"graph", "build", "a", "bomb", "malware", "ddos", "bypass",
          "suicide", "ssn", "child", "porn"}
Tokens == Seps \cup Words

\* tokens that may follow the query q: words and whitespace runs alternate
NextTokens(q) ==
  IF Len(q) = 0 THEN Tokens
  ELSE IF q[Len(q)] \in Seps THEN Words ELSE Seps

RECURSIVE QueriesOfLen(_)
QueriesOfLen(n) ==
  IF n = 0 THEN {<< >>}
  ELSE UNION {{Append(q, t) : t \in NextTokens(q)} : q \in QueriesOfLen(n - 1)}

QueriesUpTo(n) == UNION {QueriesOfLen(k) : k \in 0..n}

(***************************************************************************)
(* Safety preflight guard.                                                 *)
(***************************************************************************)
NoReason == <<"null", 0>>
EmptyReason == <<"Empty or meaningless query", 0>>
DisallowedReason(i) == <<"Disallowed content", i>>

NumPatterns == 7

At(q, i) == IF i \in 1..Len(q) THEN q[i] ELSE "eos"

\* UNSAFE_PATTERNS[i].test(q), on tokens
Matches(i, q) ==
  CASE i = 1 ->
         \E k \in 1..Len(q) :
            /\ q[k] \in {"build"}
            /\ At(q, k + 1) \in Seps
            /\ \/ At(q, k + 2) \in {"bomb"}
               \/ /\ At(q, k + 2) \in {"a"}
                  /\ At(q, k + 3) \in Seps
                  /\ At(q, k + 4) \in {"bomb"}
    [] i = 2 -> \E k \in 1..Len(q) : q[k] = "malware"
    [] i = 3 -> \E k \in 1..Len(q) : q[k] = "ddos"
    [] i = 4 -> \E k \in 1..Len(q) : q[k] = "bypass"
    [] i = 5 -> \E k \in 1..Len(q) : q[k] = "suicide"
    [] i = 6 -> \E k \in 1..Len(q) : q[k] = "ssn"
    [] i = 7 ->
         \E k \in 1..Len(q) : \E m \in (k + 1)..Len(q) :
            /\ q[k] = "child"
            /\ q[m] = "porn"
            /\ \A x \in (k + 1)..(m - 1) : q[x] # "nl"
    [] OTHER -> FALSE

\* query.trim() is empty
TrimIsEmpty(q) == \A k \in 1..Len(q) : q[k] \in Seps

preflightUnsafe_NoTrim(q) ==
  IF Len(q) = 0 THEN EmptyReason
  ELSE IF \E i \in 1..NumPatterns : Matches(i, q)
       THEN DisallowedReason(CHOOSE i \in 1..NumPatterns :
                 /\ Matches(i, q)
                 /\ \A j \in 1..(i - 1) : ~Matches(j, q))
       ELSE NoReason

preflightUnsafe(q) ==
  IF Len(q) = 0 \/ TrimIsEmpty(q) THEN EmptyReason
  ELSE IF \E i \in 1..NumPatterns : Matches(i, q)
       THEN DisallowedReason(CHOOSE i \in 1..NumPatterns :
                 /\ Matches(i, q)
                 /\ \A j \in 1..(i - 1) : ~Matches(j, q))
       ELSE NoReason

(***************************************************************************)
(* enhanceQuery.                                                           *)
(***************************************************************************)
NoResult == [blocked |-> FALSE, reason |-> NoReason,
             hypothetical |-> << >>, keywords |-> << >>]
Blocked(reason) == [blocked |-> TRUE, reason |-> reason,
                    hypothetical |-> << >>, keywords |-> << >>]
Enhanced(h, k) == [blocked |-> FALSE, reason |-> NoReason,
                   hypothetical |-> h, keywords |-> k]

ModelBlockedReason == <<"model reason", 0>>
DefaultBlockedReason == <<"blocked", 0>>
ModelHypothetical == <<"hypo">>

KeywordLists == {[i \in 1..n |-> "kw"] : n \in 0..MaxKeywords}

\* what model.generateContent may do for the enhancer prompt
EnhancerOutcomes ==
  {[kind |-> k, reason |-> FALSE, hypo |-> FALSE, keywords |-> << >>] :
      k \in {"error", "unparseable"}}
  \cup {[kind |-> "blocked", reason |-> r, hypo |-> FALSE, keywords |-> << >>] :
      r \in BOOLEAN}
  \cup {[kind |-> "json", reason |-> FALSE, hypo |-> h, keywords |-> k] :
      h \in BOOLEAN, k \in KeywordLists}

NoOutcome == [kind |-> "none", reason |-> FALSE, hypo |-> FALSE, keywords |-> << >>]

\* the call is pending and the model will never answer it
SilentOutcome == [kind |-> "silent", reason |-> FALSE, hypo |-> FALSE, keywords |-> << >>]

EnhanceFromModel_FailClosed(q, o) ==
  CASE o.kind \in {"error", "unparseable"} -> Blocked(DefaultBlockedReason)
    [] o.kind = "blocked" ->
         Blocked(IF o.reason THEN ModelBlockedReason ELSE DefaultBlockedReason)
    [] OTHER ->
         IF o.hypo THEN Enhanced(ModelHypothetical, o.keywords)
         ELSE Enhanced(q, << >>)

\* the value enhanceQuery returns once the model call has settled
EnhanceFromModel(q, o) ==
  CASE o.kind \in {"error", "unparseable"} -> Enhanced(q, << >>)
    [] o.kind = "blocked" ->
         Blocked(IF o.reason THEN ModelBlockedReason ELSE DefaultBlockedReason)
    [] OTHER ->
         IF o.hypo THEN Enhanced(ModelHypothetical, o.keywords)
         ELSE Enhanced(q, << >>)

\* enhanceQuery up to its first await: preflight, then the model request
EnhStart ==
  /\ enhPc = "start"
  /\ LET unsafeReason == preflightUnsafe(query) IN
       IF unsafeReason # NoReason
       THEN /\ enhRes' = Blocked(unsafeReason)
            /\ enhPc' = "done"
            /\ UNCHANGED enhModelCalls
       ELSE /\ enhModelCalls' = enhModelCalls + 1
            /\ enhPc' = "await"
            /\ UNCHANGED enhRes
  /\ UNCHANGED <<query, enhOut>>

\* the model call settles
EnhModelReturn ==
  /\ enhPc = "await"
  /\ enhOut = NoOutcome
  /\ \E o \in EnhancerOutcomes : enhOut' = o /\ enhRes' = EnhanceFromModel(query, o)
  /\ enhPc' = "done"
  /\ UNCHANGED <<query, enhModelCalls>>

\* the model goes silent on the pending call; nothing in enhanceQuery bounds
\* the await
EnhModelSilent ==
  /\ enhPc = "await"
  /\ enhOut = NoOutcome
  /\ enhOut' = SilentOutcome
  /\ UNCHANGED <<query, enhPc, enhRes, enhModelCalls>>

(***************************************************************************)
(* Secrets and clients bootstrap (module-level singletons).                *)
(***************************************************************************)
Reqs == {"r1", "r2", "r3"}
NoSecret == "none"
SecretVersions == {"v1", "v2"}

SetPc(f, r, v) == [f EXCEPT ![r] = v]

\* the resolvers on the waiter list are called with the value v
RECURSIVE ResolveWaiters(_, _, _)
ResolveWaiters(ws, f, v) ==
  IF Len(ws) = 0 THEN f
  ELSE ResolveWaiters(Tail(ws), [f EXCEPT ![Head(ws)] = v], v)

\* initializeClients up to its first await, with getSecrets up to its own:
\* cached clients, cached secrets, join the in-flight fetch, or start one
BootArrive_NoFlag(r) ==
  /\ bpc[r] = "idle"
  /\ IF clients
     THEN /\ bpc' = SetPc(bpc, r, "ready")
          /\ UNCHANGED <<bgot, fetchingSecrets, secretWaiters, fetchStarted>>
     ELSE IF secretCache # NoSecret
     THEN /\ bpc' = SetPc(bpc, r, "gotSecrets")
          /\ bgot' = [bgot EXCEPT ![r] = secretCache]
          /\ UNCHANGED <<fetchingSecrets, secretWaiters, fetchStarted>>
     ELSE /\ fetchStarted < MaxFetches
          /\ fetchingSecrets' = TRUE
          /\ fetchStarted' = fetchStarted + 1
          /\ bpc' = SetPc(bpc, r, "fetching")
          /\ UNCHANGED <<bgot, secretWaiters>>
  /\ UNCHANGED <<clients, secretCache, secretStore>>

BootArrive(r) ==
  /\ bpc[r] = "idle"
  /\ IF clients
     THEN /\ bpc' = SetPc(bpc, r, "ready")
          /\ UNCHANGED <<bgot, fetchingSecrets, secretWaiters, fetchStarted>>
     ELSE IF secretCache # NoSecret
     THEN /\ bpc' = SetPc(bpc, r, "gotSecrets")
          /\ bgot' = [bgot EXCEPT ![r] = secretCache]
          /\ UNCHANGED <<fetchingSecrets, secretWaiters, fetchStarted>>
     ELSE IF fetchingSecrets
     THEN /\ secretWaiters' = Append(secretWaiters, r)
          /\ bpc' = SetPc(bpc, r, "waitSecrets")
          /\ UNCHANGED <<bgot, fetchingSecrets, fetchStarted>>
     ELSE /\ fetchStarted < MaxFetches
          /\ fetchingSecrets' = TRUE
          /\ fetchStarted' = fetchStarted + 1
          /\ bpc' = SetPc(bpc, r, "fetching")
          /\ UNCHANGED <<bgot, secretWaiters>>
  /\ UNCHANGED <<clients, secretCache, secretStore>>

\* Promise.all of the two secret reads settles for the fetching caller
FetchDone(r) ==
  /\ bpc[r] = "fetching"
  /\ IF secretStore = "down"
     THEN \* a read throws: the exception leaves getSecrets at the await
          /\ bpc' = SetPc(bpc, r, "failed")
          /\ UNCHANGED <<secretCache, fetchingSecrets, secretWaiters, bgot>>
     ELSE /\ secretCache' = secretStore
          /\ fetchingSecrets' = FALSE
          /\ bpc' = SetPc(ResolveWaiters(secretWaiters, bpc, "gotSecrets"),
                          r, "gotSecrets")
          /\ bgot' = [ResolveWaiters(secretWaiters, bgot, secretStore)
                        EXCEPT ![r] = secretStore]
          /\ secretWaiters' = << >>
  /\ UNCHANGED <<clients, secretStore, fetchStarted>>

\* the rest of initializeClients: build the clients, ping the search engine
BootPing(r) ==
  /\ bpc[r] = "gotSecrets"
  /\ \E ok \in BOOLEAN :
       IF ok THEN /\ clients' = TRUE
                  /\ bpc' = SetPc(bpc, r, "ready")
             ELSE /\ bpc' = SetPc(bpc, r, "failed")
                  /\ UNCHANGED clients
  /\ UNCHANGED <<secretCache, fetchingSecrets, secretWaiters, secretStore,
                 fetchStarted, bgot>>

\* the secret manager goes down, recovers, or the secret is rotated
SecretStoreChange ==
  /\ \E v \in (SecretVersions \cup {"down"}) \ {secretStore} : secretStore' = v
  /\ UNCHANGED <<clients, secretCache, fetchingSecrets, secretWaiters,
                 fetchStarted, bpc, bgot>>

\* the request leaves initializeClients: the pipeline goes on, or the
\* handler's catch answers 500; the slot is then free for a later request
BootFinish(r) ==
  /\ bpc[r] \in {"ready", "failed"}
  /\ bpc' = SetPc(bpc, r, "idle")
  /\ bgot' = [bgot EXCEPT ![r] = NoSecret]
  /\ UNCHANGED <<clients, secretCache, fetchingSecrets, secretWaiters,
                 secretStore, fetchStarted>>

(***************************************************************************)
(* The chat request handler, POST /api/chat.                               *)
(***************************************************************************)
ChatReq == "r1"
STREAM_CHAR_CAP == 3
MAX_SNIPPETS == 8
MaxFollowups == 6
NumEmbedEndpoints == 4

Min(a, b) == IF a < b THEN a ELSE b

\* external calls of one request; streams lists the generateContentStream
\* calls as <<request carried the grounding tool, how the call settled>>
NoCalls == [session |-> 0, embed |-> 0, search |-> 0, stream |-> 0, streams |-> << >>]
StreamCallOutcomes == {"ok", "schema400", "error"}
StreamCall(c, tool, o) ==
  [c EXCEPT !.stream = @ + 1, !.streams = Append(@, <<tool, o>>)]
NoResp == [status |-> 0, outcome |-> "none"]
NoSearchResponse == [arrived |-> FALSE, list |-> << >>]
\* the stream's controller; cancelled: the consumer cancelled the stream;
\* pulledAfterCancel: start() asked the model stream for another item after that
NewController ==
  [closeRequested |-> FALSE, closeCalls |-> 0, rejected |-> FALSE,
   cancelled |-> FALSE, pulledAfterCancel |-> FALSE]

\* the request body: a malformed body, a query that is not a string, or a query
NotAString == <<"not a string">>
MalformedBody == <<"malformed body">>
ChatTokens == {"sp", "graph", "malware"}
ChatBodies ==
  {q \in QueriesUpTo(MaxChatQueryLen) : \A i \in 1..Len(q) : q[i] \in ChatTokens}
  \cup {NotAString, MalformedBody}

\* regions x endpoint shapes, in the order embedViaRestRobust tries them
EmbedEndpoints_EndpointMajor ==
  << <<"region1", ":embedText">>, <<"region2", ":embedText">>,
     <<"region1", ":predict">>, <<"region2", ":predict">> >>

EmbedEndpoints ==
  << <<"region1", ":embedText">>, <<"region1", ":predict">>,
     <<"region2", ":embedText">>, <<"region2", ":predict">> >>
EmbedOutcomes == {"vector", "novector", "non2xx", "throw"}

\* search responses: hit i of the response is on or off the topic regexp
RawHitLists ==
  UNION {{[i \in 1..n |-> [doc |-> i, onTopic |-> f[i]]] : f \in [1..n -> BOOLEAN]} :
           n \in 0..MaxHits}

OnTopic(h) == h.onTopic

\* the light domain filter: keep the filtered list only if 3 or more remain
TopicFilter_Always(raw) == SelectSeq(raw, OnTopic)

TopicFilter(raw) ==
  LET filtered == SelectSeq(raw, OnTopic) IN
  IF Len(filtered) >= 3 THEN filtered ELSE raw

IsZeroHit_Never(h) == FALSE

IsZeroHit(h) == Len(h) = 0

SourceItems(h) ==
  [i \in 1..Min(Len(h), MAX_SNIPPETS) |-> [id |-> i, doc |-> h[i].doc]]

followupsFromKeywords(kw) == [i \in 1..Min(Len(kw), MaxFollowups) |-> i]

\* JSON.stringify(sourceItems): the documents, in rank order
JsonSources(items) == [i \in 1..Len(items) |-> items[i].doc]
\* JSON.stringify(meta): one link per source item, then the follow-ups
JsonMeta(items, kw) == <<Len(items), Len(followupsFromKeywords(kw))>>

SourcesDelim == <<"|||SOURCES|||", << >> >>
MetaDelim == <<"|||META|||", << >> >>
TruncMarker == <<"[...truncated]", << >> >>
ErrorMarker == <<"[Stream ended due to an internal error]", << >> >>
FixedNoSources == <<"I couldn't find any specific documents", << >> >>
Text(chars) == <<"text", chars>>

\* the two enqueues at the head of ReadableStream.start
Preamble_MetaFirst(items, kw) ==
  << <<"meta", JsonMeta(items, kw)>>, MetaDelim,
     <<"sources", JsonSources(items)>>, SourcesDelim >>

Preamble(items, kw) ==
  << <<"sources", JsonSources(items)>>, SourcesDelim,
     <<"meta", JsonMeta(items, kw)>>, MetaDelim >>

\* the body of the zero-hit Response
ZeroHitBody(kw) ==
  << <<"sources", << >> >>, SourcesDelim,
     <<"meta", JsonMeta(<< >>, kw)>>, MetaDelim, FixedNoSources >>

\* controller.close(): throws once a close has been requested or the stream
\* is no longer readable
Close(c) ==
  IF c.closeRequested \/ c.cancelled
  THEN [c EXCEPT !.closeCalls = @ + 1, !.rejected = TRUE]
  ELSE [c EXCEPT !.closeCalls = @ + 1, !.closeRequested = TRUE]

\* one non-empty text part of n characters; the model text is 1, 2, 3, ...
OnChunk_OverBudget(st, n) ==
  LET budget == STREAM_CHAR_CAP - st.emitted
      chunk == [i \in 1..n |-> st.upstream + i]
  IN IF budget <= 0
     THEN [st EXCEPT !.out = Append(@, TruncMarker),
                     !.upstream = @ + n, !.returned = TRUE]
     ELSE LET slice == SubSeq(chunk, 1, Min(n, budget + 1)) IN
          [out |-> IF Len(slice) < n
                   THEN st.out \o <<Text(slice), TruncMarker>>
                   ELSE Append(st.out, Text(slice)),
           emitted |-> st.emitted + Len(slice),
           upstream |-> st.upstream + n,
           returned |-> Len(slice) < n]

OnChunk(st, n) ==
  LET budget == STREAM_CHAR_CAP - st.emitted
      chunk == [i \in 1..n |-> st.upstream + i]
  IN IF budget <= 0
     THEN [st EXCEPT !.out = Append(@, TruncMarker),
                     !.upstream = @ + n, !.returned = TRUE]
     ELSE LET slice == SubSeq(chunk, 1, Min(n, budget)) IN
          [out |-> IF Len(slice) < n
                   THEN st.out \o <<Text(slice), TruncMarker>>
                   ELSE Append(st.out, Text(slice)),
           emitted |-> st.emitted + Len(slice),
           upstream |-> st.upstream + n,
           returned |-> Len(slice) < n]

\* the inner loop over the parts of one stream item; a part of length 0 is
\* a part whose text is missing, not a string, or empty
RECURSIVE RunParts(_, _)
RunParts(parts, st) ==
  IF Len(parts) = 0 \/ st.returned THEN st
  ELSE RunParts(Tail(parts),
                IF Head(parts) = 0 THEN st ELSE OnChunk(st, Head(parts)))

StreamItems == UNION {[1..n -> 0..MaxChunk] : n \in 0..MaxParts}

RECURSIVE SumSeq(_)
SumSeq(s) == IF Len(s) = 0 THEN 0 ELSE Head(s) + SumSeq(Tail(s))

Respond(status, outcome) ==
  /\ resp' = [status |-> status, outcome |-> outcome]
  /\ chatPc' = "done"

\* requireSession(), awaited before the handler's try block
ChatArrive ==
  /\ chatPc = "idle"
  /\ calls' = [NoCalls EXCEPT !.session = 1]
  /\ \E ok \in BOOLEAN :
       IF ok THEN chatPc' = "parse" /\ UNCHANGED resp
       ELSE Respond(0, "unhandled exception")
  /\ UNCHANGED <<embedLog, rawHits, hits, out, emitted, upstream, ctrl, enhVars, bootVars>>

\* req.json() and the validation of query
ChatParse ==
  /\ chatPc = "parse"
  /\ \E b \in ChatBodies :
       IF b = MalformedBody
       THEN Respond(500, "pipeline failed") /\ UNCHANGED query
       ELSE IF b = NotAString \/ Len(b) = 0
       THEN Respond(400, "query required") /\ UNCHANGED query
       ELSE /\ query' = b
            /\ chatPc' = "boot"
            /\ UNCHANGED resp
  /\ UNCHANGED <<enhPc, enhRes, enhModelCalls, enhOut, calls, embedLog, rawHits, hits, out,
                 emitted, upstream, ctrl, bootVars>>

\* initializeClients(reqId)
ChatBootArrive ==
  /\ chatPc = "boot"
  /\ BootArrive(ChatReq)
  /\ UNCHANGED <<enhVars, chatVars>>

ChatFetchDone ==
  /\ chatPc = "boot"
  /\ FetchDone(ChatReq)
  /\ UNCHANGED <<enhVars, chatVars>>

ChatBootPing ==
  /\ chatPc = "boot"
  /\ BootPing(ChatReq)
  /\ UNCHANGED <<enhVars, chatVars>>

\* initializeClients returned or threw; on success enhanceQuery is called
ChatBootDone ==
  /\ chatPc = "boot"
  /\ bpc[ChatReq] \in {"ready", "failed"}
  /\ IF bpc[ChatReq] = "ready"
     THEN /\ chatPc' = "enhance"
          /\ enhPc' = "start"
          /\ enhModelCalls' = 0
          /\ enhRes' = NoResult
          /\ enhOut' = NoOutcome
          /\ UNCHANGED resp
     ELSE /\ Respond(500, "pipeline failed")
          /\ UNCHANGED <<enhPc, enhModelCalls, enhRes, enhOut>>
  /\ bpc' = SetPc(bpc, ChatReq, "idle")
  /\ bgot' = [bgot EXCEPT ![ChatReq] = NoSecret]
  /\ UNCHANGED <<query, calls, embedLog, rawHits, hits, out, emitted, upstream, ctrl,
                 clients, secretCache, fetchingSecrets, secretWaiters,
                 secretStore, fetchStarted>>

ChatEnhStart ==
  /\ chatPc = "enhance"
  /\ EnhStart
  /\ UNCHANGED <<bootVars, chatVars, cardVars, listVars, enqVars, auxVars>>

ChatEnhModelReturn ==
  /\ chatPc = "enhance"
  /\ EnhModelReturn
  /\ UNCHANGED <<bootVars, chatVars, cardVars, listVars, enqVars, auxVars>>

ChatEnhModelSilent ==
  /\ chatPc = "enhance"
  /\ EnhModelSilent
  /\ UNCHANGED <<bootVars, chatVars, cardVars, listVars, enqVars, auxVars>>

\* enhanceQuery returned: a blocked query is answered 400
ChatAfterEnhance ==
  /\ chatPc = "enhance"
  /\ enhPc = "done"
  /\ IF enhRes.blocked
     THEN Respond(400, "blocked")
     ELSE chatPc' = "embed" /\ UNCHANGED resp
  /\ enhPc' = "idle"
  /\ UNCHANGED <<query, enhRes, enhModelCalls, enhOut, calls, embedLog, rawHits, hits, out,
                 emitted, upstream, ctrl, bootVars>>

\* auth.getAccessToken() throws before any endpoint is tried
ChatEmbedTokenFail ==
  /\ chatPc = "embed"
  /\ Len(embedLog) = 0
  /\ Respond(500, "pipeline failed")
  /\ UNCHANGED <<calls, embedLog, rawHits, hits, out, emitted, upstream, ctrl,
                 enhVars, bootVars>>

\* one fetch of embedViaRestRobust; after the last failure the error goes
\* through getEmbedding to the handler's catch
ChatEmbedAttempt_Swallow ==
  /\ chatPc = "embed"
  /\ \E o \in EmbedOutcomes :
       LET k == Len(embedLog) + 1 IN
       /\ embedLog' = Append(embedLog, <<EmbedEndpoints[k], o = "vector">>)
       /\ calls' = [calls EXCEPT !.embed = @ + 1]
       /\ IF o = "vector" \/ k = NumEmbedEndpoints
          THEN chatPc' = "search" /\ UNCHANGED resp
          ELSE UNCHANGED <<chatPc, resp>>
  /\ UNCHANGED <<rawHits, hits, out, emitted, upstream, ctrl, enhVars, bootVars>>

ChatEmbedAttempt ==
  /\ chatPc = "embed"
  /\ \E o \in EmbedOutcomes :
       LET k == Len(embedLog) + 1 IN
       /\ embedLog' = Append(embedLog, <<EmbedEndpoints[k], o = "vector">>)
       /\ calls' = [calls EXCEPT !.embed = @ + 1]
       /\ IF o = "vector" THEN chatPc' = "search" /\ UNCHANGED resp
          ELSE IF k = NumEmbedEndpoints THEN Respond(500, "pipeline failed")
          ELSE UNCHANGED <<chatPc, resp>>
  /\ UNCHANGED <<rawHits, hits, out, emitted, upstream, ctrl, enhVars, bootVars>>

\* esClient.search settles; topic filter; the zero-hit response
ChatSearch ==
  /\ chatPc = "search"
  /\ calls' = [calls EXCEPT !.search = @ + 1]
  /\ \/ /\ Respond(500, "pipeline failed")
        /\ UNCHANGED <<rawHits, hits, out>>
     \/ \E raw \in RawHitLists :
          /\ rawHits' = [arrived |-> TRUE, list |-> raw]
          /\ hits' = TopicFilter(raw)
          /\ IF IsZeroHit(hits')
             THEN /\ out' = ZeroHitBody(enhRes.keywords)
                  /\ Respond(200, "no sources")
             ELSE /\ chatPc' = "genstream"
                  /\ UNCHANGED <<out, resp>>
  /\ UNCHANGED <<embedLog, emitted, upstream, ctrl, enhVars, bootVars>>

\* new ReadableStream({ start }): start runs up to its first await
StartStream ==
  /\ out' = Preamble(SourceItems(hits), enhRes.keywords)
  /\ emitted' = 0
  /\ upstream' = 0
  /\ ctrl' = NewController
  /\ chatPc' = "streaming"
  /\ resp' = [status |-> 200, outcome |-> "Streaming"]

\* generateContentStream with the grounding tool; the catch tests the
\* message against the schema-error pattern
ChatGenStream_RetryAny ==
  /\ chatPc = "genstream"
  /\ \E o \in StreamCallOutcomes :
       /\ calls' = StreamCall(calls, TRUE, o)
       /\ IF o = "ok" THEN StartStream
          ELSE /\ chatPc' = "genretry"
               /\ UNCHANGED <<out, emitted, upstream, ctrl, resp>>
  /\ UNCHANGED <<embedLog, rawHits, hits, enhVars, bootVars>>

ChatGenStream ==
  /\ chatPc = "genstream"
  /\ \E o \in StreamCallOutcomes :
       /\ calls' = StreamCall(calls, TRUE, o)
       /\ CASE o = "ok" -> StartStream
            [] o = "schema400" ->
                 /\ chatPc' = "genretry"
                 /\ UNCHANGED <<out, emitted, upstream, ctrl, resp>>
            [] OTHER ->
                 /\ Respond(500, "pipeline failed")
                 /\ UNCHANGED <<out, emitted, upstream, ctrl>>
  /\ UNCHANGED <<embedLog, rawHits, hits, enhVars, bootVars>>

\* the retry with baseReq, which has no tools; its error is not caught here
ChatGenRetry ==
  /\ chatPc = "genretry"
  /\ \E o \in StreamCallOutcomes :
       /\ calls' = StreamCall(calls, FALSE, o)
       /\ IF o = "ok" THEN StartStream
          ELSE /\ Respond(500, "pipeline failed")
               /\ UNCHANGED <<out, emitted, upstream, ctrl>>
  /\ UNCHANGED <<embedLog, rawHits, hits, enhVars, bootVars>>

\* the consumer of the response body cancels it; the stream was built without
\* a cancel() callback, so start() is not told
StreamCancel ==
  /\ chatPc = "streaming"
  /\ ~ctrl.cancelled
  /\ ctrl' = [ctrl EXCEPT !.cancelled = TRUE]
  /\ UNCHANGED <<chatPc, resp, calls, embedLog, rawHits, hits, out, emitted, upstream,
                 enhVars, bootVars>>

HasText(item) == \E i \in 1..Len(item) : item[i] > 0

FirstText(item) == item[CHOOSE i \in 1..Len(item) :
                          item[i] > 0 /\ \A j \in 1..(i - 1) : item[j] = 0]

\* an item arrives after the cancel: without text the loop asks for the next
\* item; with text controller.enqueue throws, so does the enqueue in the
\* catch and the close() in the finally, and start() rejects
StreamItemCancelled(item) ==
  IF HasText(item)
  THEN LET n == FirstText(item)
           budget == STREAM_CHAR_CAP - emitted
       IN /\ emitted' = IF budget <= 0 THEN emitted ELSE emitted + Min(n, budget)
          /\ upstream' = upstream + n
          /\ ctrl' = Close(ctrl)
          /\ Respond(200, "Aborted")
          /\ UNCHANGED out
  ELSE /\ ctrl' = [ctrl EXCEPT !.pulledAfterCancel = TRUE]
       /\ UNCHANGED <<out, emitted, upstream, chatPc, resp>>

\* the model stream yields an item; its parts are handled without an await.
\* In the truncation branches close() is called, then again by the finally.
StreamItem ==
  /\ chatPc = "streaming"
  /\ \E item \in StreamItems :
       /\ upstream + SumSeq(item) <= MaxUpstream
       /\ IF ctrl.cancelled THEN StreamItemCancelled(item)
          ELSE LET st == RunParts(item, [out |-> out, emitted |-> emitted,
                                         upstream |-> upstream, returned |-> FALSE])
               IN /\ out' = st.out
                  /\ emitted' = st.emitted
                  /\ upstream' = st.upstream
                  /\ IF st.returned
                     THEN /\ ctrl' = Close(Close(ctrl))
                          /\ Respond(200, "Truncated")
                     ELSE UNCHANGED <<ctrl, chatPc, resp>>
  /\ UNCHANGED <<calls, embedLog, rawHits, hits, enhVars, bootVars>>

\* the model stream ends
StreamEnd ==
  /\ chatPc = "streaming"
  /\ ctrl' = Close(ctrl)
  /\ Respond(200, IF ctrl.cancelled THEN "Aborted" ELSE "Completed")
  /\ UNCHANGED <<calls, embedLog, rawHits, hits, out, emitted, upstream, enhVars, bootVars>>

\* iterating the model stream throws: the catch enqueues the marker, the
\* finally closes; on a cancelled stream both calls throw
StreamError_Silent ==
  /\ chatPc = "streaming"
  /\ UNCHANGED out
  /\ ctrl' = Close(ctrl)
  /\ Respond(200, IF ctrl.cancelled THEN "Aborted" ELSE "Errored")
  /\ UNCHANGED <<calls, embedLog, rawHits, hits, emitted, upstream, enhVars, bootVars>>

StreamError ==
  /\ chatPc = "streaming"
  /\ out' = IF ctrl.cancelled THEN out ELSE Append(out, ErrorMarker)
  /\ ctrl' = Close(ctrl)
  /\ Respond(200, IF ctrl.cancelled THEN "Aborted" ELSE "Errored")
  /\ UNCHANGED <<calls, embedLog, rawHits, hits, emitted, upstream, enhVars, bootVars>>

\* the request is over; the next one arrives later
ChatReset ==
  /\ chatPc = "done"
  /\ chatPc' = "idle"
  /\ calls' = NoCalls
  /\ embedLog' = << >>
  /\ rawHits' = NoSearchResponse
  /\ hits' = << >>
  /\ out' = << >>
  /\ emitted' = 0
  /\ upstream' = 0
  /\ ctrl' = NewController
  /\ resp' = NoResp
  /\ query' = << >>
  /\ enhPc' = "idle"
  /\ enhRes' = NoResult
  /\ enhModelCalls' = 0
  /\ enhOut' = NoOutcome
  /\ UNCHANGED bootVars

(***************************************************************************)
(* The page's reader of the chat response, handleSubmit.  The body is the  *)
(* sequence of segments the server enqueued; a chunk is a run of them.     *)
(***************************************************************************)
NoClient == [buffer |-> << >>, sources |-> << >>, sourcesReceived |-> FALSE]

\* buffer.indexOf: the first position of x, 0 when absent
IndexOf(seq, x) ==
  IF \E i \in 1..Len(seq) : seq[i] = x
  THEN CHOOSE i \in 1..Len(seq) : seq[i] = x /\ \A j \in 1..(i - 1) : seq[j] # x
  ELSE 0

\* JSON.parse(parts[0]) in its try: the source list, [] when it does not parse
ParseSources(part) ==
  IF Len(part) = 1 /\ part[1][1] = "sources" THEN part[1][2] ELSE << >>

\* one turn of the read loop: append the chunk, extract the sources once
ClientRead(st, chunk) ==
  LET buf == st.buffer \o chunk
      k == IndexOf(buf, SourcesDelim)
  IN IF ~st.sourcesReceived /\ k > 0
     THEN [buffer |-> SubSeq(buf, k + 1, Len(buf)),
           sources |-> ParseSources(SubSeq(buf, 1, k - 1)),
           sourcesReceived |-> TRUE]
     ELSE [st EXCEPT !.buffer = buf]

RECURSIVE ClientReadAll(_, _)
ClientReadAll(st, chunks) ==
  IF Len(chunks) = 0 THEN st
  ELSE ClientReadAll(ClientRead(st, Head(chunks)), Tail(chunks))

\* the answer posted to /api/cards/enqueue: the buffer left after the loop
AutoEnqueueAnswer(st) == st.buffer

\* ways the body reaches the reader: segment by segment, or cut in two
Chunkings(body) ==
  {[i \in 1..Len(body) |-> <<body[i]>>]}
    \cup {<<SubSeq(body, 1, k), SubSeq(body, k + 1, Len(body))>> : k \in 0..Len(body)}

(***************************************************************************)
(* Study card generator, generateAndStoreCard.                             *)
(*                                                                         *)
(* Identifiers and answers are character sequences.  The SHA-256 digest is *)
(* taken as injective on the inputs of the model, so a card id is modelled *)
(* by the digest's input: the '|'-joined string the code hashes.           *)
(***************************************************************************)
Procs == {"p1", "p2"}
Sessions == {<<"s">>}
Turns == {<<"t">>}
Answers == {<<"x">>, <<"x", "|", "x">>}
\* the ids of the source items in the caller's order, topic, fromQuery: the
\* same sources presented in two orders, with and without labels
Presentations == {<<<<1, 2>>, "", "">>, <<<<2, 1>>, "T", "Q">>}

ParamsOver(ss, ts, as, prs) ==
  { [sessionId |-> s, turnId |-> t, answer |-> a, sources |-> pr[1],
     topic |-> pr[2], fromQuery |-> pr[3]] :
      s \in ss, t \in ts, a \in as, pr \in prs }

\* one answer in both presentations, the other answers in one
GenerateParams ==
  ParamsOver(Sessions, Turns, {<<"x">>}, Presentations)
    \cup ParamsOver(Sessions, Turns, Answers, {<<<<1, 2>>, "", "">>})

NoParams == [sessionId |-> << >>, turnId |-> << >>, answer |-> << >>, sources |-> << >>,
             topic |-> "", fromQuery |-> ""]

DigitOf(n) == <<"0", "1", "2", "3", "4", "5", "6", "7", "8", "9">>[n + 1]

RECURSIVE InsertAsc(_, _)
InsertAsc(x, s) ==
  IF s = << >> THEN <<x>>
  ELSE IF x <= Head(s) THEN <<x>> \o s
       ELSE <<Head(s)>> \o InsertAsc(x, Tail(s))

\* ids.sort((a, b) => a - b)
RECURSIVE SortAsc(_)
SortAsc(s) == IF s = << >> THEN << >> ELSE InsertAsc(Head(s), SortAsc(Tail(s)))

RECURSIVE JoinIds(_)
JoinIds(ids) ==
  IF ids = << >> THEN << >>
  ELSE IF Len(ids) = 1 THEN <<DigitOf(ids[1])>>
       ELSE <<DigitOf(Head(ids)), ",">> \o JoinIds(Tail(ids))

\* JSON.stringify of an array of numbers
JsonStringify(ids) == <<"[">> \o JoinIds(ids) \o <<"]">>

HashInput(sessionId, turnId, answer, ids) ==
  sessionId \o <<"|">> \o turnId \o <<"|">> \o answer \o <<"|">> \o JsonStringify(ids)

CardId_Unsorted(a) == HashInput(a.sessionId, a.turnId, a.answer, a.sources)

CardId(a) == HashInput(a.sessionId, a.turnId, a.answer, SortAsc(a.sources))

\* calls started so far
CallsStarted == Len(glog) + Cardinality({ q \in Procs : gpc[q] # "idle" })

\* a document reference that is fresh for every call instead of the card id
CardRef_AutoId(cardId) == cardId \o <<"#", DigitOf(CallsStarted)>>

\* db.collection('study_cards').doc(cardId)
CardRef(cardId) == cardId

ModelReplies == {"obj", "null", "garbage"}   \* text of the first candidate
ModelErrors == {"schema400", "error"}         \* rejected generateContent
DefaultText == "{}"

NullPayload == [isNull |-> TRUE, topic |-> "", summary |-> ""]
EmptyPayload == [isNull |-> FALSE, topic |-> "", summary |-> ""]

\* JSON.parse(text), {} when it throws
ParsePayload(text) ==
  CASE text = "obj" -> [isNull |-> FALSE, topic |-> "PT", summary |-> "S"]
    [] text = "null" -> NullPayload
    [] OTHER -> EmptyPayload

UserTopic(a) ==
  IF a.topic # "" THEN a.topic
  ELSE IF a.fromQuery # "" THEN a.fromQuery ELSE "Study Topic"

NoCard == [id |-> << >>, sessionId |-> << >>, turnId |-> << >>, topic |-> "", summary |-> "",
           sources |-> << >>, fromQuery |-> "", createdAt |-> 0]

BuildCard(a, cardId, payload, now) ==
  [id |-> cardId, sessionId |-> a.sessionId, turnId |-> a.turnId,
   topic |-> IF payload.topic # "" THEN payload.topic ELSE UserTopic(a),
   summary |-> payload.summary, sources |-> a.sources, fromQuery |-> a.fromQuery,
   createdAt |-> now]

EmptyStore == [k \in {} |-> NoCard]

\* set(ref, fields, { merge: true })
MergeSet(store, k, fields) ==
  LET doc == IF k \in DOMAIN store
             THEN [f \in DOMAIN store[k] \cup DOMAIN fields |->
                     IF f \in DOMAIN fields THEN fields[f] ELSE store[k][f]]
             ELSE fields
  IN  [x \in DOMAIN store \cup {k} |-> IF x = k THEN doc ELSE store[x]]

\* the turn document fields of the batch; increment(1) and serverTimestamp()
\* are resolved by the store when the batch is applied
TurnFields(store, card, now) ==
  [id |-> card.turnId, sessionId |-> card.sessionId, preview |-> card.summary,
   cardCount |-> IF card.turnId \in DOMAIN store /\ "cardCount" \in DOMAIN store[card.turnId]
                 THEN store[card.turnId].cardCount + 1 ELSE 1,
   createdAt |-> now, updatedAt |-> now]

NoLocals == [args |-> NoParams, id |-> << >>, ref |-> << >>, card |-> NoCard,
             calls |-> 0, failed |-> 0, start |-> 0]

\* the call of process p ends: its result is recorded; start is the number of
\* calls that had ended when this one began
GenFinish(p, outcome, cached, wrote) ==
  /\ glog' = Append(glog, [args |-> gloc[p].args, id |-> gloc[p].id, outcome |-> outcome,
                           cached |-> cached, modelCalls |-> gloc[p].calls,
                           wrote |-> wrote, start |-> gloc[p].start])
  /\ gpc' = [gpc EXCEPT ![p] = "idle"]

\* the process a new call runs in: processes are interchangeable, so a call
\* takes p1 whenever p1 is free
FreeProc == IF gpc["p1"] = "idle" THEN "p1" ELSE "p2"

\* entry up to the await of ref.get()
GenStart(p) ==
  /\ gpc[p] = "idle"
  /\ p = FreeProc
  /\ CallsStarted < MaxCalls
  /\ \E a \in GenerateParams :
       gloc' = [gloc EXCEPT ![p] = [args |-> a, id |-> CardId(a), ref |-> CardRef(CardId(a)),
                                    card |-> NoCard, calls |-> 0, failed |-> 0,
                                    start |-> Len(glog)]]
  /\ gpc' = [gpc EXCEPT ![p] = "check"]
  /\ UNCHANGED <<study_cards, turns, clock, useGrounding, glog>>

\* ref.get() resolves; a missing card leads to the first generateContent call
GenCheck(p) ==
  /\ gpc[p] = "check"
  /\ \/ /\ GenFinish(p, "threw get", FALSE, FALSE)
        /\ gloc' = [gloc EXCEPT ![p] = NoLocals]
     \/ /\ gloc[p].ref \in DOMAIN study_cards
        /\ GenFinish(p, "returned", TRUE, FALSE)
        /\ gloc' = [gloc EXCEPT ![p] = NoLocals]
     \/ /\ gloc[p].ref \notin DOMAIN study_cards
        /\ gloc' = [gloc EXCEPT ![p].calls = 1]
        /\ gpc' = [gpc EXCEPT ![p] = "model"]
        /\ UNCHANGED glog
  /\ UNCHANGED <<study_cards, turns, clock, useGrounding>>

\* the text left by a settled generateContent call
TextOf(o) == IF o \in ModelReplies THEN o ELSE DefaultText

\* from the settled model call to the await of batch.commit()
AfterModel(p, o) ==
  IF ParsePayload(TextOf(o)).isNull
  THEN /\ GenFinish(p, "threw TypeError", FALSE, FALSE)
       /\ gloc' = [gloc EXCEPT ![p] = NoLocals]
  ELSE /\ gloc' = [gloc EXCEPT
                     ![p].card = BuildCard(gloc[p].args, gloc[p].id,
                                           ParsePayload(TextOf(o)), clock),
                     ![p].failed = IF o \in ModelErrors THEN @ + 1 ELSE @]
       /\ gpc' = [gpc EXCEPT ![p] = "commit"]
       /\ UNCHANGED glog

\* the first generateContent call settles
GenModel(p) ==
  /\ gpc[p] = "model"
  /\ \E o \in ModelReplies \cup ModelErrors :
       IF o = "schema400" /\ useGrounding
       THEN /\ gloc' = [gloc EXCEPT ![p].calls = 2, ![p].failed = 1]
            /\ gpc' = [gpc EXCEPT ![p] = "retry"]
            /\ UNCHANGED glog
       ELSE AfterModel(p, o)
  /\ UNCHANGED <<study_cards, turns, clock, useGrounding>>

\* the retry without tools settles
GenRetry(p) ==
  /\ gpc[p] = "retry"
  /\ \E o \in ModelReplies \cup ModelErrors :
       AfterModel(p, o)
  /\ UNCHANGED <<study_cards, turns, clock, useGrounding>>

GenCommit_CardFirst(p) ==
  /\ gpc[p] = "commit"
  /\ \/ /\ study_cards' = MergeSet(study_cards, gloc[p].ref, gloc[p].card)
        /\ turns' = MergeSet(turns, gloc[p].card.turnId, TurnFields(turns, gloc[p].card, clock))
        /\ GenFinish(p, "returned", FALSE, TRUE)
     \/ /\ GenFinish(p, "threw commit", FALSE, FALSE)
        /\ study_cards' = MergeSet(study_cards, gloc[p].ref, gloc[p].card)
        /\ UNCHANGED turns
  /\ gloc' = [gloc EXCEPT ![p] = NoLocals]
  /\ UNCHANGED <<clock, useGrounding>>

\* batch.commit() settles: both writes are applied, or none
GenCommit(p) ==
  /\ gpc[p] = "commit"
  /\ \/ /\ study_cards' = MergeSet(study_cards, gloc[p].ref, gloc[p].card)
        /\ turns' = MergeSet(turns, gloc[p].card.turnId, TurnFields(turns, gloc[p].card, clock))
        /\ GenFinish(p, "returned", FALSE, TRUE)
     \/ /\ GenFinish(p, "threw commit", FALSE, FALSE)
        /\ UNCHANGED <<study_cards, turns>>
  /\ gloc' = [gloc EXCEPT ![p] = NoLocals]
  /\ UNCHANGED <<clock, useGrounding>>

\* wall-clock time advances by a millisecond; the clock is read when a model
\* call has settled and when a batch is applied, so time is let pass only
\* while a call waits for one of the two
Tick ==
  /\ clock < MaxClock
  /\ \E p \in Procs : gpc[p] \in {"model", "retry", "commit"}
  /\ clock' = clock + 1
  /\ UNCHANGED <<study_cards, turns, useGrounding, gpc, gloc, glog>>

(***************************************************************************)
(* Card listing endpoint, GET /api/cards.  Two versions of the route are   *)
(* in the repository: version 1 pages by createdAt alone, version 2 by     *)
(* (createdAt, id).                                                        *)
(***************************************************************************)
CharCode(c) ==
  CASE c = "#" -> 35 [] c = "," -> 44 [] c = "0" -> 48 [] c = "1" -> 49 [] c = "2" -> 50
    [] c = "3" -> 51 [] c = "4" -> 52 [] c = "5" -> 53 [] c = "6" -> 54 [] c = "7" -> 55
    [] c = "8" -> 56 [] c = "9" -> 57 [] c = "[" -> 91 [] c = "]" -> 93 [] c = "r" -> 114
    [] c = "s" -> 115 [] c = "t" -> 116 [] c = "u" -> 117 [] c = "x" -> 120 [] c = "|" -> 124

\* string order, as the store orders document names and string fields
RECURSIVE StrLess(_, _)
StrLess(a, b) ==
  IF a = << >> THEN b # << >>
  ELSE IF b = << >> THEN FALSE
  ELSE IF Head(a) = Head(b) THEN StrLess(Tail(a), Tail(b))
  ELSE CharCode(Head(a)) < CharCode(Head(b))

\* the elements of S as a sequence, x before y whenever before[x, y]
RECURSIVE OrderedBy(_, _)
OrderedBy(S, before) ==
  IF S = {} THEN << >>
  ELSE LET first == CHOOSE x \in S : \A y \in S \ {x} : before[x, y]
       IN  <<first>> \o OrderedBy(S \ {first}, before)

RECURSIVE StableInsert(_, _, _)
StableInsert(x, s, before) ==
  IF s = << >> THEN <<x>>
  ELSE IF before[x, Head(s)] THEN <<x>> \o s
       ELSE <<Head(s)>> \o StableInsert(x, Tail(s), before)

\* Array.prototype.sort with a comparator: stable
RECURSIVE StableSort(_, _)
StableSort(s, before) ==
  IF s = << >> THEN << >>
  ELSE StableInsert(s[Len(s)], StableSort(SubSeq(s, 1, Len(s) - 1), before), before)

Slice(s, n) == SubSeq(s, 1, Min(n, Len(s)))

NoCursor == [has |-> FALSE, createdAt |-> 0, id |-> << >>]

ListSessions == Sessions \cup {<<"r">>}
ListTurns == Turns \cup {<<"u">>}

\* cards the generator writes, from which the stores of the listing are drawn
ListCardParams ==
  ParamsOver(Sessions, Turns, Answers, {<<<<1, 2>>, "", "">>})
    \cup ParamsOver(ListSessions, ListTurns \ Turns, {<<"x">>}, {<<<<1, 2>>, "", "">>})

ListStores ==
  { st \in UNION { [ids -> { BuildCard(a, CardId(a), ParsePayload("obj"), t) :
                               a \in ListCardParams, t \in 1..MaxClock }] :
                   ids \in SUBSET { CardRef(CardId(a)) : a \in ListCardParams } } :
      \A k \in DOMAIN st : CardRef(st[k].id) = k }

\* where('sessionId', '==', sessionId) and, if given, where('turnId', '==', turnId)
Matching(store, pr) ==
  { k \in DOMAIN store : /\ store[k].sessionId = pr.sessionId
                         /\ pr.turnId # << >> => store[k].turnId = pr.turnId }

\* a query with filters only returns the documents by ascending name
Snapshot(store, pr) ==
  LET S == Matching(store, pr)
  IN  OrderedBy(S, [p \in S \X S |-> StrLess(p[1], p[2])])

\* orderBy('createdAt', 'desc'): ties are broken by document name, in the
\* direction of the last ordering
IndexedOrderV1(store, pr) ==
  LET S == Matching(store, pr)
  IN  OrderedBy(S, [p \in S \X S |->
        \/ store[p[1]].createdAt > store[p[2]].createdAt
        \/ /\ store[p[1]].createdAt = store[p[2]].createdAt
           /\ StrLess(p[2], p[1])])

\* orderBy('createdAt', 'desc').orderBy('id', 'desc')
IndexedOrderV2(store, pr) ==
  LET S == Matching(store, pr)
  IN  OrderedBy(S, [p \in S \X S |->
        \/ store[p[1]].createdAt > store[p[2]].createdAt
        \/ /\ store[p[1]].createdAt = store[p[2]].createdAt
           /\ \/ StrLess(store[p[2]].id, store[p[1]].id)
              \/ /\ store[p[2]].id = store[p[1]].id
                 /\ StrLess(p[2], p[1])])

Data(store, refs) == [i \in 1..Len(refs) |-> store[refs[i]]]

NextCursorV1(cards, limit) ==
  IF Len(cards) = limit /\ cards[Len(cards)].createdAt # 0
  THEN [has |-> TRUE, createdAt |-> cards[Len(cards)].createdAt, id |-> << >>]
  ELSE NoCursor

NextCursorV2(cards, limit) ==
  IF Len(cards) = limit /\ cards[Len(cards)].createdAt # 0 /\ cards[Len(cards)].id # << >>
  THEN [has |-> TRUE, createdAt |-> cards[Len(cards)].createdAt, id |-> cards[Len(cards)].id]
  ELSE NoCursor

ListResponse(cards, nextCursor, warning) ==
  [status |-> 200, cards |-> cards, nextCursor |-> nextCursor, warning |-> warning]

ErrorResponse(status) ==
  [status |-> status, cards |-> << >>, nextCursor |-> NoCursor, warning |-> "none"]

\* version 1, runIndexed
RunIndexedV1(store, pr) ==
  LET all == Data(store, IndexedOrderV1(store, pr))
      after == IF pr.cursor.has
               THEN SelectSeq(all, LAMBDA x : x.createdAt < pr.cursor.createdAt)
               ELSE all
      cards == Slice(after, pr.limit)
  IN  ListResponse(cards, NextCursorV1(cards, pr.limit), "none")

\* version 1, runFallback
RunFallbackV1(store, pr) ==
  LET all == Data(store, Snapshot(store, pr))
      D == { all[i] : i \in 1..Len(all) }
      sorted == StableSort(all, [p \in D \X D |-> p[1].createdAt > p[2].createdAt])
      after == IF pr.cursor.has
               THEN SelectSeq(sorted, LAMBDA x : x.createdAt < pr.cursor.createdAt)
               ELSE sorted
      sliced == Slice(after, pr.limit)
  IN  ListResponse(sliced, NextCursorV1(sliced, pr.limit), "missing_index")

\* version 2, runIndexed
RunIndexedV2(store, pr) ==
  LET all == Data(store, IndexedOrderV2(store, pr))
      recent == IF pr.since # 0 THEN SelectSeq(all, LAMBDA x : x.createdAt >= pr.since)
                ELSE all
      after == IF pr.cursor.has
               THEN SelectSeq(recent, LAMBDA x :
                      \/ x.createdAt < pr.cursor.createdAt
                      \/ x.createdAt = pr.cursor.createdAt /\ StrLess(x.id, pr.cursor.id))
               ELSE recent
      cards == Slice(after, pr.limit)
  IN  ListResponse(cards, NextCursorV2(cards, pr.limit), "none")

\* version 2, runFallback
RunFallbackV2(store, pr) ==
  LET all == Data(store, Snapshot(store, pr))
      recent == IF pr.since # 0 THEN SelectSeq(all, LAMBDA x : x.createdAt >= pr.since)
                ELSE all
      D == { recent[i] : i \in 1..Len(recent) }
      sorted == StableSort(recent, [p \in D \X D |->
                  \/ p[1].createdAt > p[2].createdAt
                  \/ p[1].createdAt = p[2].createdAt /\ StrLess(p[2].id, p[1].id)])
      after == IF pr.cursor.has
               THEN SelectSeq(sorted, LAMBDA x :
                      \/ x.createdAt < pr.cursor.createdAt
                      \/ x.createdAt = pr.cursor.createdAt /\ StrLess(x.id, pr.cursor.id))
               ELSE sorted
      sliced == Slice(after, pr.limit)
  IN  ListResponse(sliced, NextCursorV2(sliced, pr.limit), "missing_index")

RunIndexed(v, store, pr) == IF v = 1 THEN RunIndexedV1(store, pr) ELSE RunIndexedV2(store, pr)

IndexStates == {"ready", "missing", "failing"}

CursorIds == { CardId(a) : a \in ListCardParams }

ListParamsV1 ==
  [sessionId : ListSessions \cup {<< >>}, turnId : ListTurns \cup {<< >>}, limit : 1..MaxLimit,
   since : {0},
   cursor : {NoCursor} \cup [has : {TRUE}, createdAt : 1..MaxClock, id : {<< >>}]]

ListParamsV2 ==
  [sessionId : ListSessions \cup {<< >>}, turnId : ListTurns \cup {<< >>}, limit : 1..MaxLimit,
   since : {0, MaxClock},
   cursor : {NoCursor} \cup [has : {TRUE}, createdAt : 1..MaxClock, id : CursorIds]]

NoListRequest == [version |-> 0, params |-> [sessionId |-> << >>, turnId |-> << >>,
                  limit |-> 1, since |-> 0, cursor |-> NoCursor]]

\* the whole handler; the reads of one request see one state of the store
ListHandle(v, pr, index) ==
  /\ listReq = NoListRequest
  /\ listReq' = [version |-> v, params |-> pr]
  /\ listResp' =
       IF pr.sessionId = << >> THEN ErrorResponse(400)
       ELSE IF index = "ready" THEN RunIndexed(v, study_cards, pr)
       ELSE IF index = "missing"
            THEN IF v = 1 THEN RunFallbackV1(study_cards, pr)
                 ELSE RunFallbackV2(study_cards, pr)
       ELSE ErrorResponse(500)
  /\ UNCHANGED cardVars

ListGetV1 == \E pr \in ListParamsV1, index \in IndexStates : ListHandle(1, pr, index)

ListGetV2 == \E pr \in ListParamsV2, index \in IndexStates : ListHandle(2, pr, index)

\* the response has been delivered; the endpoint is ready for the next request
ListDone ==
  /\ listReq # NoListRequest
  /\ listReq' = NoListRequest
  /\ listResp' = ErrorResponse(0)
  /\ UNCHANGED cardVars

(***************************************************************************)
(* Card enqueue endpoint, POST /api/cards/enqueue.  Two versions of the     *)
(* route are in the repository: version 1 is src/app/api/cards/enqueue/     *)
(* route.ts, version 2 the variant that creates the task over REST.         *)
(***************************************************************************)
EnqProc == "p1"     \* the generator call made inline by the handler

MalformedPayload == [NoParams EXCEPT !.topic = "malformed"]

\* bodies that fail the basic validation
InvalidPayloads ==
  { [a EXCEPT !.sessionId = << >>] : a \in GenerateParams }
    \cup { [a EXCEPT !.turnId = << >>] : a \in GenerateParams }
    \cup { [a EXCEPT !.answer = << >>] : a \in GenerateParams }

EnqueuePayloads == GenerateParams \cup InvalidPayloads \cup {MalformedPayload}

NoEnqResponse == [status |-> 0, ok |-> FALSE, mode |-> "none", error |-> "none",
                  id |-> << >>, cached |-> FALSE]

EnqError(status, error) ==
  [status |-> status, ok |-> FALSE, mode |-> "none", error |-> error,
   id |-> << >>, cached |-> FALSE]

EnqAsyncOk ==
  [status |-> 200, ok |-> TRUE, mode |-> "async", error |-> "none",
   id |-> << >>, cached |-> FALSE]

EnqSyncOk(result) ==
  [status |-> 200, ok |-> TRUE, mode |-> "sync", error |-> "none",
   id |-> result.id, cached |-> result.cached]

ValidationError(b) ==
  IF b.sessionId = << >> THEN "sessionId required"
  ELSE IF b.turnId = << >> THEN "turnId required"
  ELSE IF b.answer = << >> THEN "answer & sources required"
  ELSE "none"

\* generateAndStoreCard(payload) is entered by the handler
EnqCallGenerator(payload) ==
  /\ GenStart(EnqProc)
  /\ gloc'[EnqProc].args = payload
  /\ enqPc' = "generate"
  /\ UNCHANGED enqResp

\* req.json(), the validation, and the choice of the path
EnqArrive ==
  /\ enqPc = "idle"
  /\ \E b \in EnqueuePayloads :
       /\ enqPayload' = b
       /\ IF b = MalformedPayload
          THEN /\ enqResp' = IF enqEnv.version = 1 THEN EnqError(0, "unhandled exception")
                              ELSE EnqError(400, "invalid-json")
               /\ enqPc' = "done"
               /\ UNCHANGED cardVars
          ELSE IF ValidationError(b) # "none"
          THEN /\ enqResp' = EnqError(400, ValidationError(b))
               /\ enqPc' = "done"
               /\ UNCHANGED cardVars
          ELSE IF enqEnv.async
          THEN /\ enqPc' = "enqueue"
               /\ UNCHANGED <<enqResp, cardVars>>
          ELSE EnqCallGenerator(b)
  /\ UNCHANGED <<enqEnv, enqTask>>

\* the task creation settles
EnqTaskSettle ==
  /\ enqPc = "enqueue"
  /\ \/ /\ enqTask' = "created"
        /\ enqResp' = EnqAsyncOk
        /\ enqPc' = "done"
        /\ UNCHANGED cardVars
     \/ /\ enqTask' = "failed"
        /\ IF enqEnv.version = 1
           THEN /\ enqResp' = EnqError(500, "enqueue-failed")
                /\ enqPc' = "done"
                /\ UNCHANGED cardVars
           ELSE EnqCallGenerator(enqPayload)
  /\ UNCHANGED <<enqEnv, enqPayload>>

\* a step of the inline generator call
EnqGenStep ==
  /\ enqPc = "generate"
  /\ \/ GenCheck(EnqProc)
     \/ GenModel(EnqProc)
     \/ GenRetry(EnqProc)
     \/ GenCommit(EnqProc)
  /\ UNCHANGED enqVars

\* generateAndStoreCard returned or threw
EnqGenDone ==
  /\ enqPc = "generate"
  /\ gpc[EnqProc] = "idle"
  /\ enqResp' = IF glog[Len(glog)].outcome = "returned"
                THEN EnqSyncOk(glog[Len(glog)])
                ELSE EnqError(500, "sync-failed")
  /\ enqPc' = "done"
  /\ UNCHANGED <<enqEnv, enqPayload, enqTask, cardVars>>

\* the response has been delivered; the endpoint is ready for the next request
EnqReset ==
  /\ enqPc = "done"
  /\ enqPc' = "idle"
  /\ enqPayload' = NoParams
  /\ enqTask' = "none"
  /\ enqResp' = NoEnqResponse
  /\ UNCHANGED <<enqEnv, cardVars>>

(***************************************************************************)
(* ensureSession: the server-owned session of a contact.                   *)
(***************************************************************************)
NoCookies == [sessionId |-> << >>, sessionKey |-> << >>, anonId |-> << >>]

\* newId() and newKey(): values never issued before
FreshId(n) == <<"sid", n>>
FreshKey(n) == <<"key", n>>
FreshAnon(n) == <<"anon", n>>

\* an id no session document was ever created for (a stale or made-up cookie)
StaleId == <<"sid", 0>>

\* the cookies a contact can present: none, the anon id alone, the id of a
\* stored session without its key, its pair (with its key or another), or a
\* pair naming no stored session
Contacts ==
  {NoCookies, [NoCookies EXCEPT !.anonId = FreshAnon(0)]}
    \cup {[sessionId |-> FreshId(n), sessionKey |-> << >>, anonId |-> FreshAnon(n)] :
            n \in {i \in 1..newIds : FreshId(i) \in DOMAIN sessions}}
    \cup {[sessionId |-> FreshId(n), sessionKey |-> FreshKey(n), anonId |-> FreshAnon(n)] :
            n \in {i \in 1..newIds : FreshId(i) \in DOMAIN sessions}}
    \cup {[sessionId |-> FreshId(n), sessionKey |-> FreshKey(0), anonId |-> FreshAnon(n)] :
            n \in {i \in 1..newIds : FreshId(i) \in DOMAIN sessions}}
    \cup {[sessionId |-> StaleId, sessionKey |-> FreshKey(0), anonId |-> FreshAnon(0)]}

\* the document written for a new session
SessionDoc(id, key, anon, now) ==
  [id |-> id, owner |-> anon, sessionKey |-> key,
   createdAt |-> now, updatedAt |-> now, archived |-> FALSE]

\* doc(id).set(data): the document is replaced
SetDoc(store, k, doc) ==
  [x \in DOMAIN store \cup {k} |-> IF x = k THEN doc ELSE store[x]]

\* the touch of a contact that presents a pair: set(..., { merge: true })
TouchSession(store, id, now) == MergeSet(store, id, [updatedAt |-> now])

\* ensureSession for one contact; stored tells whether the write went through
\* (when it rejects, ensureSession throws and no cookie is set)
EnsureSession(c, stored) ==
  /\ contact' = c
  /\ IF c.sessionId = << >> \/ c.sessionKey = << >>
     THEN /\ newIds < MaxSessions
          /\ newIds' = newIds + 1
          /\ sessions' =
               IF stored
               THEN SetDoc(sessions, FreshId(newIds + 1),
                           SessionDoc(FreshId(newIds + 1), FreshKey(newIds + 1),
                                      IF c.anonId = << >> THEN FreshAnon(newIds + 1)
                                      ELSE c.anonId,
                                      clock))
               ELSE sessions
     ELSE /\ sessions' = IF stored THEN TouchSession(sessions, c.sessionId, clock)
                         ELSE sessions
          /\ UNCHANGED newIds
  /\ UNCHANGED <<cardVars, cacheVars>>

SessContact == \E c \in Contacts, stored \in BOOLEAN : EnsureSession(c, stored)

\* time passes between calls
SessTick ==
  /\ clock < MaxClock
  /\ clock' = clock + 1
  /\ UNCHANGED <<study_cards, turns, useGrounding, gpc, gloc, glog, sessVars, cacheVars>>

(***************************************************************************)
(* strengthenQuery, the enhancer of the earlier chat route, with its       *)
(* module-level cache.  The clock unit is one TTL.                         *)
(***************************************************************************)
ENHANCER_TTL_MS == 1

\* queries: empty, plain, one differing from "q" by case and trailing blank,
\* and one the skip heuristic catches
StrQueries == {"", "q", "Q ", "r", "{x}"}

\* query?.trim()
StrTrim(q) == IF q = "Q " THEN "Q" ELSE q

\* toLowerCase, whitespace runs to one blank, trim
normKey(q) == IF q \in {"Q", "Q "} THEN "q" ELSE q

shouldSkipEnhancer(q) == q = "" \/ q = "{x}"

\* how the model call under withTimeout settles: JSON with a hypothetical
\* answer, JSON whose answer is blank, text that is not JSON, no text, an
\* error, or the timeout
StrOutcomes == {"h1", "h2", "blank", "nonjson", "empty", "error", "timeout"}

StrResult(value, hit, now) == [value |-> value, hit |-> hit, at |-> now]

NoStrResult == StrResult("", FALSE, 0)

\* strengthenQuery up to its await: skipped, answered from the cache, or the
\* model is called
StrStart(q) ==
  /\ strPc = "idle"
  /\ LET base == StrTrim(q)
         key == normKey(base)
     IN IF base = "" \/ shouldSkipEnhancer(base)
        THEN /\ strRes' = StrResult(base, FALSE, clock)
             /\ UNCHANGED <<strPc, strQuery>>
        ELSE IF key \in DOMAIN ENHANCER_CACHE /\ ENHANCER_CACHE[key].expiresAt > clock
        THEN /\ strRes' = StrResult(ENHANCER_CACHE[key].value, TRUE, clock)
             /\ UNCHANGED <<strPc, strQuery>>
        ELSE /\ strPc' = "await"
             /\ strQuery' = base
             /\ UNCHANGED strRes
  /\ UNCHANGED <<ENHANCER_CACHE, cardVars, sessVars>>

\* the model call settles: a usable answer is cached and returned, anything
\* else returns the trimmed query
StrModelReturn(o) ==
  /\ strPc = "await"
  /\ strPc' = "idle"
  /\ IF o \in {"h1", "h2"}
     THEN /\ ENHANCER_CACHE' = SetDoc(ENHANCER_CACHE, normKey(strQuery),
                                      [value |-> o, expiresAt |-> clock + ENHANCER_TTL_MS])
          /\ strRes' = StrResult(o, FALSE, clock)
     ELSE /\ strRes' = StrResult(strQuery, FALSE, clock)
          /\ UNCHANGED ENHANCER_CACHE
  /\ UNCHANGED <<strQuery, cardVars, sessVars>>

StrCall == \E q \in StrQueries : StrStart(q)

StrSettle == \E o \in StrOutcomes : StrModelReturn(o)

(***************************************************************************)
(* Specifications.                                                         *)
(***************************************************************************)
BootInit ==
  /\ clients = FALSE
  /\ secretCache = NoSecret
  /\ fetchingSecrets = FALSE
  /\ secretWaiters = << >>
  /\ secretStore \in SecretVersions \cup {"down"}
  /\ fetchStarted = 0
  /\ bpc = [r \in Reqs |-> "idle"]
  /\ bgot = [r \in Reqs |-> NoSecret]

ChatInit ==
  /\ chatPc = "idle"
  /\ calls = NoCalls
  /\ embedLog = << >>
  /\ rawHits = NoSearchResponse
  /\ hits = << >>
  /\ out = << >>
  /\ emitted = 0
  /\ upstream = 0
  /\ ctrl = NewController
  /\ resp = NoResp

EnhIdleInit ==
  /\ query = << >>
  /\ enhPc = "idle"
  /\ enhRes = NoResult
  /\ enhModelCalls = 0
  /\ enhOut = NoOutcome

CardIdleInit ==
  /\ study_cards = EmptyStore
  /\ turns = EmptyStore
  /\ clock = 1
  /\ useGrounding = FALSE
  /\ gpc = [p \in Procs |-> "idle"]
  /\ gloc = [p \in Procs |-> NoLocals]
  /\ glog = << >>

ListIdleInit ==
  /\ listReq = NoListRequest
  /\ listResp = ErrorResponse(0)

EnqIdleInit ==
  /\ enqEnv = [version |-> 1, async |-> FALSE]
  /\ enqPc = "idle"
  /\ enqPayload = NoParams
  /\ enqTask = "none"
  /\ enqResp = NoEnqResponse

SessIdleInit ==
  /\ sessions = EmptyStore
  /\ contact = NoCookies
  /\ newIds = 0

CacheIdleInit ==
  /\ ENHANCER_CACHE = EmptyStore
  /\ strPc = "idle"
  /\ strQuery = ""
  /\ strRes = NoStrResult

AuxIdleInit == SessIdleInit /\ CacheIdleInit

StoreIdleInit == CardIdleInit /\ ListIdleInit /\ EnqIdleInit /\ AuxIdleInit

\* enhanceQuery called directly on any query
EnhInit ==
  /\ query \in QueriesUpTo(MaxQueryLen)
  /\ enhPc = "start"
  /\ enhRes = NoResult
  /\ enhModelCalls = 0
  /\ enhOut = NoOutcome
  /\ BootInit
  /\ ChatInit
  /\ StoreIdleInit

EnhNext ==
  \/ EnhStart /\ UNCHANGED <<bootVars, chatVars, cardVars, listVars, enqVars, auxVars>>
  \/ EnhModelReturn /\ UNCHANGED <<bootVars, chatVars, cardVars, listVars, enqVars, auxVars>>
  \/ EnhModelSilent /\ UNCHANGED <<bootVars, chatVars, cardVars, listVars, enqVars, auxVars>>

SpecEnhance == EnhInit /\ [][EnhNext]_vars

\* every step the enhancer or the model can take is eventually taken
SpecEnhanceLive == SpecEnhance /\ WF_vars(EnhNext)

\* concurrent requests going through the bootstrap
SecretsInit == EnhIdleInit /\ BootInit /\ ChatInit /\ StoreIdleInit

SecretsNext ==
  \/ \E r \in Reqs : BootArrive(r) /\ UNCHANGED <<enhVars, chatVars, cardVars, listVars, enqVars, auxVars>>
  \/ \E r \in Reqs : FetchDone(r) /\ UNCHANGED <<enhVars, chatVars, cardVars, listVars, enqVars, auxVars>>
  \/ \E r \in Reqs : BootPing(r) /\ UNCHANGED <<enhVars, chatVars, cardVars, listVars, enqVars, auxVars>>
  \/ \E r \in Reqs : BootFinish(r) /\ UNCHANGED <<enhVars, chatVars, cardVars, listVars, enqVars, auxVars>>
  \/ SecretStoreChange /\ UNCHANGED <<enhVars, chatVars, cardVars, listVars, enqVars, auxVars>>

SpecSecrets == SecretsInit /\ [][SecretsNext]_vars

\* chat requests, one after the other
ChatSpecInit == EnhIdleInit /\ BootInit /\ ChatInit /\ StoreIdleInit /\ secretStore # "v2"

ChatNext ==
  \/ ChatArrive /\ UNCHANGED <<cardVars, listVars, enqVars, auxVars>>
  \/ ChatParse /\ UNCHANGED <<cardVars, listVars, enqVars, auxVars>>
  \/ ChatBootArrive /\ UNCHANGED <<cardVars, listVars, enqVars, auxVars>>
  \/ ChatFetchDone /\ UNCHANGED <<cardVars, listVars, enqVars, auxVars>>
  \/ ChatBootPing /\ UNCHANGED <<cardVars, listVars, enqVars, auxVars>>
  \/ ChatBootDone /\ UNCHANGED <<cardVars, listVars, enqVars, auxVars>>
  \/ ChatEnhStart /\ UNCHANGED <<cardVars, listVars, enqVars, auxVars>>
  \/ ChatEnhModelReturn /\ UNCHANGED <<cardVars, listVars, enqVars, auxVars>>
  \/ ChatEnhModelSilent /\ UNCHANGED <<cardVars, listVars, enqVars, auxVars>>
  \/ ChatAfterEnhance /\ UNCHANGED <<cardVars, listVars, enqVars, auxVars>>
  \/ ChatEmbedTokenFail /\ UNCHANGED <<cardVars, listVars, enqVars, auxVars>>
  \/ ChatEmbedAttempt /\ UNCHANGED <<cardVars, listVars, enqVars, auxVars>>
  \/ ChatSearch /\ UNCHANGED <<cardVars, listVars, enqVars, auxVars>>
  \/ ChatGenStream /\ UNCHANGED <<cardVars, listVars, enqVars, auxVars>>
  \/ ChatGenRetry /\ UNCHANGED <<cardVars, listVars, enqVars, auxVars>>
  \/ StreamItem /\ UNCHANGED <<cardVars, listVars, enqVars, auxVars>>
  \/ StreamEnd /\ UNCHANGED <<cardVars, listVars, enqVars, auxVars>>
  \/ StreamError /\ UNCHANGED <<cardVars, listVars, enqVars, auxVars>>
  \/ StreamCancel /\ UNCHANGED <<cardVars, listVars, enqVars, auxVars>>
  \/ ChatReset /\ UNCHANGED <<cardVars, listVars, enqVars, auxVars>>

SpecChat == ChatSpecInit /\ [][ChatNext]_vars

\* generateAndStoreCard called by concurrent processes
CardInit ==
  /\ EnhIdleInit /\ BootInit /\ ChatInit /\ ListIdleInit /\ EnqIdleInit /\ AuxIdleInit
  /\ secretStore = "down"
  /\ study_cards = EmptyStore
  /\ turns = EmptyStore
  /\ clock = 1
  /\ useGrounding \in BOOLEAN
  /\ gpc = [p \in Procs |-> "idle"]
  /\ gloc = [p \in Procs |-> NoLocals]
  /\ glog = << >>

CardNext ==
  \/ \E p \in Procs : GenStart(p) /\ UNCHANGED <<enhVars, bootVars, chatVars, listVars, enqVars, auxVars>>
  \/ \E p \in Procs : GenCheck(p) /\ UNCHANGED <<enhVars, bootVars, chatVars, listVars, enqVars, auxVars>>
  \/ \E p \in Procs : GenModel(p) /\ UNCHANGED <<enhVars, bootVars, chatVars, listVars, enqVars, auxVars>>
  \/ \E p \in Procs : GenRetry(p) /\ UNCHANGED <<enhVars, bootVars, chatVars, listVars, enqVars, auxVars>>
  \/ \E p \in Procs : GenCommit(p) /\ UNCHANGED <<enhVars, bootVars, chatVars, listVars, enqVars, auxVars>>
  \/ Tick /\ UNCHANGED <<enhVars, bootVars, chatVars, listVars, enqVars, auxVars>>

SpecCard == CardInit /\ [][CardNext]_vars

\* listing requests against a store of generated cards
ListInit ==
  /\ EnhIdleInit /\ BootInit /\ ChatInit /\ ListIdleInit /\ EnqIdleInit /\ AuxIdleInit
  /\ secretStore = "down"
  /\ study_cards \in ListStores
  /\ turns = EmptyStore
  /\ clock = MaxClock
  /\ useGrounding = FALSE
  /\ gpc = [p \in Procs |-> "idle"]
  /\ gloc = [p \in Procs |-> NoLocals]
  /\ glog = << >>

ListNext ==
  \/ ListGetV1 /\ UNCHANGED <<enhVars, bootVars, chatVars, enqVars, auxVars>>
  \/ ListGetV2 /\ UNCHANGED <<enhVars, bootVars, chatVars, enqVars, auxVars>>
  \/ ListDone /\ UNCHANGED <<enhVars, bootVars, chatVars, enqVars, auxVars>>

SpecList == ListInit /\ [][ListNext]_vars

\* enqueue requests, one after the other, on either version of the route
EnqInit ==
  /\ EnhIdleInit /\ BootInit /\ ChatInit /\ CardIdleInit /\ ListIdleInit /\ AuxIdleInit
  /\ secretStore = "down"
  /\ enqEnv \in [version : {1, 2}, async : BOOLEAN]
  /\ enqPc = "idle"
  /\ enqPayload = NoParams
  /\ enqTask = "none"
  /\ enqResp = NoEnqResponse

EnqNext ==
  \/ EnqArrive /\ UNCHANGED <<enhVars, bootVars, chatVars, listVars, auxVars>>
  \/ EnqTaskSettle /\ UNCHANGED <<enhVars, bootVars, chatVars, listVars, auxVars>>
  \/ EnqGenStep /\ UNCHANGED <<enhVars, bootVars, chatVars, listVars, auxVars>>
  \/ EnqGenDone /\ UNCHANGED <<enhVars, bootVars, chatVars, listVars, auxVars>>
  \/ EnqReset /\ UNCHANGED <<enhVars, bootVars, chatVars, listVars, auxVars>>

SpecEnqueue == EnqInit /\ [][EnqNext]_vars

\* contacts reaching ensureSession, one after the other
SessInit ==
  /\ EnhIdleInit /\ BootInit /\ ChatInit /\ StoreIdleInit
  /\ secretStore = "down"

SessNext ==
  \/ SessContact /\ UNCHANGED <<enhVars, bootVars, chatVars, listVars, enqVars>>
  \/ SessTick /\ UNCHANGED <<enhVars, bootVars, chatVars, listVars, enqVars>>

SpecSession == SessInit /\ [][SessNext]_vars

\* strengthenQuery calls, one after the other, while time passes
CacheInit ==
  /\ EnhIdleInit /\ BootInit /\ ChatInit /\ StoreIdleInit
  /\ secretStore = "down"

CacheNext ==
  \/ StrCall /\ UNCHANGED <<enhVars, bootVars, chatVars, listVars, enqVars>>
  \/ StrSettle /\ UNCHANGED <<enhVars, bootVars, chatVars, listVars, enqVars>>
  \/ SessTick /\ UNCHANGED <<enhVars, bootVars, chatVars, listVars, enqVars>>

SpecCache == CacheInit /\ [][CacheNext]_vars

(***************************************************************************)
(* Properties.                                                             *)
(***************************************************************************)
\* a query that is empty, whitespace-only, or matched by an unsafe pattern
UnsafeQuery(q) ==
  \/ Len(q) = 0
  \/ \A k \in 1..Len(q) : q[k] \in Seps
  \/ \E i \in 1..NumPatterns : Matches(i, q)

\* C1: for every query that is empty, whitespace-only or matched by an unsafe
\* pattern, preflightUnsafe gives a reason and enhanceQuery returns Blocked
\* with that reason without any model call; a model call is only ever made
\* for a query that passed the guard.
C1_GuardBlocksBeforeModel ==
  /\ UnsafeQuery(query) => preflightUnsafe(query) # NoReason
  /\ (UnsafeQuery(query) /\ enhPc \in {"await", "done"}) =>
        /\ enhPc = "done"
        /\ enhRes.blocked
        /\ enhRes.reason = preflightUnsafe(query)
        /\ enhModelCalls = 0
  /\ enhModelCalls > 0 => ~UnsafeQuery(query)

C1_WitnessBlocked ==
  /\ enhPc = "done"
  /\ query = <<"build", "sp", "a", "sp", "bomb">>
  /\ enhRes = Blocked(DisallowedReason(1))
  /\ enhModelCalls = 0

AnswerKinds == {"text", TruncMarker[1], ErrorMarker[1], FixedNoSources[1]}

\* C4: every response body is the serialized source list, '|||SOURCES|||',
\* the serialized metadata, '|||META|||', and only then answer text; nothing
\* is emitted before both preamble segments, however many chunks follow.
C4_PreambleFirst ==
  /\ (resp.status = 200 \/ Len(out) > 0) =>
        /\ Len(out) >= 4
        /\ out[1] = <<"sources", JsonSources(SourceItems(hits))>>
        /\ out[2] = SourcesDelim
        /\ out[3] = <<"meta", JsonMeta(SourceItems(hits), enhRes.keywords)>>
        /\ out[4] = MetaDelim
        /\ \A i \in 5..Len(out) : out[i][1] \in AnswerKinds
  /\ resp.outcome = "no sources" => Len(out) = 5 /\ out[5] = FixedNoSources

\* a stream that completed without a single model chunk
C4_Witness ==
  /\ chatPc = "done"
  /\ resp.outcome = "Completed"
  /\ Len(out) = 4
  /\ Len(hits) = 2

\* the model text emitted so far
RECURSIVE AnswerText(_)
AnswerText(o) ==
  IF Len(o) = 0 THEN << >>
  ELSE IF Head(o)[1] = "text" THEN Head(o)[2] \o AnswerText(Tail(o))
  ELSE AnswerText(Tail(o))

MarkerCount(o) == Cardinality({i \in 1..Len(o) : o[i] = TruncMarker})

\* C5: the emitted answer text never exceeds STREAM_CHAR_CAP and is a prefix
\* of the model text; when a chunk was cut or dropped (model text was pulled
\* that is not emitted) the truncation marker is there exactly once, it is
\* the last thing emitted, and the stream has ended as Truncated.
C5_CharCap ==
  LET txt == AnswerText(out) IN
  /\ Len(txt) <= STREAM_CHAR_CAP
  /\ ~ctrl.cancelled => Len(txt) = emitted
  /\ txt = [i \in 1..Len(txt) |-> i]
  /\ MarkerCount(out) <= 1
  /\ MarkerCount(out) = 1 =>
        /\ out[Len(out)] = TruncMarker
        /\ resp.outcome = "Truncated"
  /\ (upstream > Len(txt) /\ ~ctrl.cancelled) =>
        /\ MarkerCount(out) = 1
        /\ chatPc = "done"
        /\ resp.outcome = "Truncated"
  /\ resp.outcome = "Truncated" => upstream > Len(txt)

\* a chunk of two characters cut to the one that still fits
C5_Witness ==
  /\ resp.outcome = "Truncated"
  /\ emitted = STREAM_CHAR_CAP
  /\ upstream = STREAM_CHAR_CAP + 1
  /\ out[Len(out) - 1] = Text(<<STREAM_CHAR_CAP>>)

\* C6: a search response with zero hits is answered with the fixed message
\* and an empty source list, and the streaming completion is never called.
C6_ZeroHitsNoModel ==
  (rawHits.arrived /\ Len(rawHits.list) = 0) =>
     /\ chatPc = "done"
     /\ resp = [status |-> 200, outcome |-> "no sources"]
     /\ out[1] = <<"sources", << >> >>
     /\ out[5] = FixedNoSources
     /\ Len(out) = 5
     /\ calls.stream = 0

C6_Witness ==
  /\ rawHits.arrived
  /\ Len(rawHits.list) = 0
  /\ resp.outcome = "no sources"
  /\ calls.search = 1

AllEmbedFailed ==
  /\ Len(embedLog) = NumEmbedEndpoints
  /\ \A i \in 1..Len(embedLog) : ~embedLog[i][2]

\* C7: when the embedding call has failed at every region/endpoint pair the
\* request is answered 500, no search query and no synthesis call is made,
\* and no endpoint is tried a second time.
C7_EmbeddingFailureIsTerminal ==
  /\ Len(embedLog) <= NumEmbedEndpoints
  /\ calls.embed = Len(embedLog)
  /\ \A i \in 1..Len(embedLog) : embedLog[i][1] = EmbedEndpoints[i]
  /\ AllEmbedFailed =>
        /\ chatPc = "done"
        /\ resp.status = 500
        /\ calls.search = 0
        /\ calls.stream = 0
        /\ ~rawHits.arrived

C7_Witness ==
  /\ AllEmbedFailed
  /\ chatPc = "done"
  /\ resp.status = 500

\* C9: whatever the interleaving of requests arriving before the secrets are
\* cached, one secret-store fetch is started and no more: one caller performs
\* it, the others are parked on the waiter list, every value handed to a
\* caller is the value that fetch cached, and nothing is fetched once the
\* cache is filled.
C9_SingleFlight ==
  /\ fetchStarted <= 1
  /\ Cardinality({r \in Reqs : bpc[r] = "fetching"}) <= 1
  /\ (fetchingSecrets \/ secretCache # NoSecret) => fetchStarted = 1
  /\ \A r \in Reqs : bpc[r] = "waitSecrets" =>
        /\ fetchingSecrets
        /\ \E i \in 1..Len(secretWaiters) : secretWaiters[i] = r
  /\ \A r \in Reqs : bgot[r] # NoSecret => bgot[r] = secretCache
  /\ secretCache # NoSecret => \A r \in Reqs : bpc[r] # "fetching"

\* two callers were coalesced onto the first caller's fetch and all three
\* hold its result
C9_Witness ==
  /\ fetchStarted = 1
  /\ secretCache # NoSecret
  /\ \A r \in Reqs : bpc[r] = "gotSecrets" /\ bgot[r] = secretCache
  /\ secretStore # secretCache

\* C10: a secret-store failure is scoped to the requests that met it: no
\* caller is left waiting forever and a later request can fetch again.  In
\* this code a caller can only be woken, and the flag only be cleared, by a
\* fetch in flight, so the claim requires that whenever the in-flight flag
\* is set some request is in fact fetching.
C10_FailureIsScoped ==
  fetchingSecrets => \E r \in Reqs : bpc[r] = "fetching"

SameCardKey(a, b) ==
  /\ a.sessionId = b.sessionId
  /\ a.turnId = b.turnId
  /\ a.answer = b.answer
  /\ SortAsc(a.sources) = SortAsc(b.sources)

Returned(i) == glog[i].outcome = "returned"

\* call i had ended when call j began
InSequence(i, j) == i <= glog[j].start

Overlapping(i, j) == i # j /\ ~InSequence(i, j) /\ ~InSequence(j, i)

\* C2: a call that follows a successful call with the same sessionId, turnId,
\* answer and source ids (in any order, with any topic and fromQuery) returns
\* the same id with cached = true, makes no model call and writes nothing;
\* the id is a function of those four inputs only.
C2_SecondCallCached ==
  /\ \A i, j \in 1..Len(glog) :
       SameCardKey(glog[i].args, glog[j].args) => glog[i].id = glog[j].id
  /\ \A i, j \in 1..Len(glog) :
       (InSequence(i, j) /\ Returned(i) /\ Returned(j)
          /\ SameCardKey(glog[i].args, glog[j].args))
       => /\ glog[j].id = glog[i].id
          /\ glog[j].cached
          /\ glog[j].modelCalls = 0
          /\ ~glog[j].wrote

C2_Witness ==
  \E i, j \in 1..Len(glog) :
    /\ InSequence(i, j) /\ Returned(i) /\ Returned(j)
    /\ SameCardKey(glog[i].args, glog[j].args)
    /\ glog[i].args.sources # glog[j].args.sources
    /\ glog[i].args.topic # glog[j].args.topic
    /\ ~glog[i].cached /\ glog[j].cached

\* C3: two overlapping calls with identical arguments that both return give
\* the same id, and the store holds exactly one card document with that id.
C3_ConcurrentOneDocument ==
  \A i, j \in 1..Len(glog) :
    (Overlapping(i, j) /\ Returned(i) /\ Returned(j) /\ glog[i].args = glog[j].args)
    => /\ glog[i].id = glog[j].id
       /\ Cardinality({ k \in DOMAIN study_cards : study_cards[k].id = glog[i].id }) = 1

C3_Witness ==
  \E i, j \in 1..Len(glog) :
    /\ Overlapping(i, j) /\ Returned(i) /\ Returned(j)
    /\ glog[i].args = glog[j].args
    /\ glog[i].wrote /\ glog[j].wrote

\* C8: a listing answered by the fallback carries the cards, in the order, and
\* the next cursor that the indexed query gives for the same parameters on the
\* same store.
C8_FallbackEqualsIndexed ==
  listResp.warning = "missing_index"
  => /\ listResp.cards = RunIndexed(listReq.version, study_cards, listReq.params).cards
     /\ listResp.nextCursor
          = RunIndexed(listReq.version, study_cards, listReq.params).nextCursor

\* the model call failed, or its output carries no usable hypothetical answer
\* (output that declares the query blocked is the model's verdict, not a failure)
EnhancerFailed ==
  \/ enhOut.kind \in {"error", "unparseable"}
  \/ enhOut.kind = "json" /\ ~enhOut.hypo

\* C11: when the enhancer's model call errors, or returns text that cannot be
\* parsed or has no usable hypothetical_answer, enhanceQuery returns the
\* original query as the hypothetical with no keywords, and is not blocked.
C11_FailOpen ==
  (enhPc = "done" /\ EnhancerFailed)
  => /\ ~UnsafeQuery(query)
     /\ enhRes = Enhanced(query, << >>)
     /\ ~enhRes.blocked

C11_Witness ==
  /\ enhPc = "done"
  /\ enhOut.kind = "unparseable"
  /\ Len(query) > 1
  /\ enhRes.hypothetical = query

\* C12: the enhancer makes at most one model call, and a pending model call
\* never keeps it from returning.
C12_EnhancerReturns ==
  /\ [](enhModelCalls <= 1)
  /\ (enhPc = "await") ~> (enhPc = "done")

\* C13: in async mode, a request whose task creation failed is answered by
\* the inline generator: with its result and mode 'sync', or with the
\* generator's own failure; never with an error for the enqueue failure alone.
C13_EnqueueFallsBack ==
  (enqPc = "done" /\ enqEnv.async /\ enqTask = "failed")
  => \/ /\ enqResp.status = 200
        /\ enqResp.mode = "sync"
        /\ enqResp.id = CardId(enqPayload)
     \/ enqResp.error = "sync-failed"

\* C14: a call whose model call errored makes exactly one retry, no call makes
\* more than two model calls, and when the retry fails too the call goes on to
\* write a card built from the empty payload.
C14_RetryOnAnyError ==
  \A p \in Procs :
    /\ gloc[p].calls <= 2
    /\ gloc[p].failed >= 1 => gloc[p].calls = 2
    /\ gloc[p].failed = 2
       => /\ gpc[p] = "commit"
          /\ gloc[p].card = BuildCard(gloc[p].args, gloc[p].id, EmptyPayload,
                                      gloc[p].card.createdAt)

\* C15: whatever text the model returned, a call that got past the model
\* call does not fail on it: unless the batch itself failed, it returns with
\* cached = false and has written its card.
C15_NoTextFailsTheCall ==
  \A i \in 1..Len(glog) :
    (glog[i].modelCalls >= 1 /\ glog[i].outcome # "threw commit")
    => (Returned(i) /\ ~glog[i].cached /\ glog[i].wrote)

Commits(t) == { i \in 1..Len(glog) : glog[i].wrote /\ glog[i].args.turnId = t }

CardsOfTurn(t) == { k \in DOMAIN study_cards : study_cards[k].turnId = t }

CardCountOf(t) ==
  IF t \in DOMAIN turns /\ "cardCount" \in DOMAIN turns[t] THEN turns[t].cardCount ELSE 0

\* C16: the card write and the turn update take effect together or not at
\* all: every stored card comes from a batch that succeeded and every batch
\* that succeeded left its card, the turn of a stored card has been touched,
\* and cardCount is the number of batches that succeeded for the turn, failed
\* commits leaving no trace in either collection.
C16_BatchIsAtomic ==
  \A t \in Turns :
    /\ \A k \in CardsOfTurn(t) :
         \E i \in Commits(t) : CardRef(glog[i].id) = k
    /\ \A i \in Commits(t) : CardRef(glog[i].id) \in CardsOfTurn(t)
    /\ CardsOfTurn(t) # {} => CardCountOf(t) >= 1
    /\ CardCountOf(t) = Cardinality(Commits(t))

C16_Witness ==
  \E i, j \in 1..Len(glog) :
    /\ glog[i].outcome = "threw commit"
    /\ glog[j].wrote
    /\ glog[j].args.turnId \in DOMAIN turns
    /\ turns[glog[j].args.turnId].cardCount = 1

\* C17: the first streaming call of a request carries the grounding tool; a
\* second call exists only after the first failed with the schema-error
\* pattern, it carries no tool and there is never a third; a first call that
\* failed otherwise, or a failed retry, ends the request as a pipeline
\* failure; the session lookup, the enhancer's model call, the search and
\* each embedding endpoint are attempted at most once per request.
C17_OnlySchemaRetry ==
  LET s == calls.streams IN
  /\ calls.stream = Len(s)
  /\ Len(s) <= 2
  /\ Len(s) >= 1 => s[1][1]
  /\ Len(s) = 2 => s[1][2] = "schema400" /\ ~s[2][1]
  /\ (Len(s) = 1 /\ s[1][2] = "schema400") => chatPc = "genretry"
  /\ ((Len(s) = 1 /\ s[1][2] = "error") \/ (Len(s) = 2 /\ s[2][2] # "ok"))
        => chatPc = "done" /\ resp = [status |-> 500, outcome |-> "pipeline failed"]
  /\ calls.session <= 1
  /\ calls.search <= 1
  /\ chatPc # "idle" => enhModelCalls <= 1
  /\ Len(embedLog) <= NumEmbedEndpoints
  /\ \A k \in 1..Len(embedLog) :
       /\ embedLog[k][1] = EmbedEndpoints[k]
       /\ k < Len(embedLog) => ~embedLog[k][2]

\* the retry without the tool was made and the answer is streaming
C17_Witness ==
  /\ chatPc = "streaming"
  /\ calls.streams = << <<TRUE, "schema400">>, <<FALSE, "ok">> >>

ErrorMarkerCount(o) == Cardinality({i \in 1..Len(o) : o[i] = ErrorMarker})

\* C18: when iterating the model stream throws on a stream the caller has not
\* cancelled, the error marker is emitted once, after the text emitted so far
\* and as the last thing of the body, the stream is closed by a single close()
\* and the request has ended as Errored; the marker appears in no other state.
C18_ErrorMarkerOnce ==
  /\ ErrorMarkerCount(out) <= 1
  /\ ErrorMarkerCount(out) = 1 =>
        /\ out[Len(out)] = ErrorMarker
        /\ chatPc = "done"
        /\ resp.outcome = "Errored"
  /\ resp.outcome = "Errored" =>
        /\ ErrorMarkerCount(out) = 1
        /\ SubSeq(out, 1, 4) = Preamble(SourceItems(hits), enhRes.keywords)
        /\ AnswerText(out) = [i \in 1..emitted |-> i]
        /\ ctrl.closeRequested /\ ctrl.closeCalls = 1 /\ ~ctrl.rejected

\* the model stream threw after some text had been emitted
C18_Witness ==
  /\ resp.outcome = "Errored"
  /\ emitted > 0
  /\ out[Len(out)] = ErrorMarker
  /\ out[Len(out) - 1][1] = "text"

\* C19: once the caller has cancelled the response stream, start() asks the
\* model stream for no further item, and no generateAndStoreCard call is made
\* for the request.
C19_CancelStopsPulling ==
  /\ ~ctrl.pulledAfterCancel
  /\ ctrl.cancelled => CallsStarted = 0 /\ enqPc = "idle"

\* C20: a chat request whose query the preflight guard rejects makes no
\* external call: when it is answered "blocked" no sessions document has been
\* written and no embedding, search or model call has been made, and while it
\* is in initializeClients no secret fetch is started and the search engine
\* is not pinged.
C20_BlockedBeforeExternalCalls ==
  /\ [](  (chatPc = "done" /\ resp.outcome = "blocked" /\ UnsafeQuery(query))
            => (calls = NoCalls /\ enhModelCalls = 0))
  /\ [][(chatPc = "boot" /\ UnsafeQuery(query))
           => /\ fetchStarted' = fetchStarted
              /\ ~(bpc[ChatReq] = "gotSecrets" /\ bpc'[ChatReq] # "gotSecrets")]_vars

\* C21: a chat request that has ended was answered by the handler: a failure
\* of the session store, the secret store, the search engine, the embedding
\* call or the model request gives the JSON error response with status 500
\* (which carries reqId), and no request ends with an exception that left
\* the handler.
C21_FailuresAreStructured ==
  chatPc = "done" =>
     /\ resp.outcome # "unhandled exception"
     /\ resp.status \in {200, 400, 500}
     /\ resp.outcome = "pipeline failed" => resp.status = 500

\* the attempts so far follow the fixed order, none is repeated, and only the
\* last one can have given a vector
EmbedAttemptsInOrder ==
  /\ Len(embedLog) <= 4
  /\ \A k \in 1..Len(embedLog) :
       /\ k = 1 => embedLog[k][1] = <<"region1", ":embedText">>
       /\ k = 2 => embedLog[k][1] = <<"region1", ":predict">>
       /\ k = 3 => embedLog[k][1] = <<"region2", ":embedText">>
       /\ k = 4 => embedLog[k][1] = <<"region2", ":predict">>
       /\ k < Len(embedLog) => ~embedLog[k][2]

\* the embedding step hands a vector on exactly when its last attempt gave one
EmbedReturnsFirstVector ==
  (chatPc = "embed" /\ chatPc' = "search")
     => (embedLog' # << >> /\ embedLog'[Len(embedLog')][2])

\* C23 as stated: the endpoints are tried in the order region1 :embedText,
\* region1 :predict, region2 :embedText, region2 :predict, each once, the next
\* one only after a failure, the first vector ends the iteration and is
\* returned, and the call fails only after all four attempts have failed.
C23_FailsOnlyAfterAllAttempts ==
  /\ []EmbedAttemptsInOrder
  /\ [][EmbedReturnsFirstVector]_vars
  /\ [][(chatPc = "embed" /\ chatPc' = "done") => AllEmbedFailed']_vars

\* C23 amended: as above, but the call also fails, before any attempt, when
\* the access token shared by the attempts cannot be obtained.
C23_EndpointOrder ==
  /\ []EmbedAttemptsInOrder
  /\ [][EmbedReturnsFirstVector]_vars
  /\ [][(chatPc = "embed" /\ chatPc' = "done")
          => (AllEmbedFailed' \/ (embedLog = << >> /\ embedLog' = << >>))]_vars

\* two failures at region1, then region2 :embedText gives the vector
C23_Witness ==
  /\ chatPc = "search"
  /\ Len(embedLog) = 3
  /\ ~embedLog[1][2] /\ ~embedLog[2][2] /\ embedLog[3][2]
  /\ embedLog[3][1] = <<"region2", ":embedText">>

OnTopicCount(raw) == Cardinality({i \in 1..Len(raw) : raw[i].onTopic})

\* C25: once the search response is in, the hits used downstream are the
\* on-topic hits in their original order when there are at least 3 of them,
\* and the response's hits unchanged otherwise; a non-empty response is never
\* answered as "no sources", and a filtered list has at least 3 hits.
C25_FilterKeepsAtLeastThree ==
  rawHits.arrived =>
    LET raw == rawHits.list
        n == OnTopicCount(raw)
    IN /\ n >= 3 =>
            /\ Len(hits) = n
            /\ \A i \in 1..Len(hits) : hits[i].onTopic
            /\ \A i \in 1..Len(raw) :
                  raw[i].onTopic => \E j \in 1..Len(hits) : hits[j] = raw[i]
            /\ \A i, j \in 1..Len(hits) : i < j => hits[i].doc < hits[j].doc
       /\ n < 3 => hits = raw
       /\ hits # raw => Len(hits) >= 3
       /\ Len(raw) > 0 => (Len(hits) > 0 /\ resp.outcome # "no sources")

\* four hits of which three are on topic: the off-topic one is dropped
C25_Witness ==
  /\ rawHits.arrived
  /\ Len(rawHits.list) = 4
  /\ OnTopicCount(rawHits.list) = 3
  /\ Len(hits) = 3
  /\ chatPc = "genstream"

\* C29: while the answer streams the controller is open, and when the stream
\* has ended as Completed, Truncated or Errored close() has been called
\* exactly once and no call on the controller was made after the close.
C29_ClosedExactlyOnce ==
  /\ chatPc = "streaming" => (ctrl.closeCalls = 0 /\ ~ctrl.closeRequested)
  /\ (chatPc = "done" /\ resp.outcome \in {"Completed", "Truncated", "Errored"}) =>
        /\ ctrl.closeRequested
        /\ ctrl.closeCalls = 1
        /\ ~ctrl.rejected

\* the answer-text channel of a body: what follows the META delimiter
AnswerChannel(body) == SubSeq(body, IndexOf(body, MetaDelim) + 1, Len(body))

\* C30: for a response body that has been sent in full, however it is cut
\* into chunks, the reader recovers the source list the server serialized,
\* and the answer it keeps and posts to the enqueue endpoint is the answer
\* channel alone, without the metadata segment and the delimiters.
C30_ClientRoundTrip ==
  (chatPc = "done" /\ resp.status = 200 /\ ~ctrl.cancelled) =>
     \A c \in Chunkings(out) :
        LET st == ClientReadAll(NoClient, c) IN
        /\ st.sourcesReceived
        /\ st.sources = JsonSources(SourceItems(hits))
        /\ AutoEnqueueAnswer(st) = AnswerChannel(out)

\* C27: a commit of generateAndStoreCard on a turn document that already
\* exists leaves the turn's createdAt as it was.
C27_TurnCreatedAtKept ==
  [][\A t \in DOMAIN turns :
        t \in DOMAIN turns' => turns'[t].createdAt = turns[t].createdAt]_vars

\* C28: the turn's cardCount never decreases and is the number of distinct
\* study-card documents stored for the turn, whatever the order or overlap of
\* the calls.
C28_CardCountIsDistinctCards ==
  /\ [](\A t \in Turns : CardCountOf(t) = Cardinality(CardsOfTurn(t)))
  /\ [][\A t \in DOMAIN turns :
          t \in DOMAIN turns' /\ turns'[t].cardCount >= turns[t].cardCount]_vars

\* one page of version v by the indexed query or by the in-memory fallback
ListPage(v, fallback, store, pr) ==
  IF ~fallback THEN RunIndexed(v, store, pr)
  ELSE IF v = 1 THEN RunFallbackV1(store, pr) ELSE RunFallbackV2(store, pr)

\* the cards of the page asked with pr followed by those of the pages asked
\* with each returned nextCursor
RECURSIVE FollowCursor(_, _, _, _)
FollowCursor(v, fallback, store, pr) ==
  LET page == ListPage(v, fallback, store, pr) IN
  IF page.nextCursor.has
  THEN page.cards \o FollowCursor(v, fallback, store, [pr EXCEPT !.cursor = page.nextCursor])
  ELSE page.cards

\* C24: for a first-page request that was answered, following nextCursor to
\* the end returns each card that matches the filters once and only once, in
\* createdAt-descending order, also when cards share a createdAt.
C24_PagesCoverEveryCardOnce ==
  (/\ listReq # NoListRequest
   /\ listResp.status = 200
   /\ ~listReq.params.cursor.has
   /\ listReq.params.since = 0)
  => LET all == FollowCursor(listReq.version, listResp.warning = "missing_index",
                             study_cards, listReq.params)
         want == Matching(study_cards, listReq.params)
     IN /\ Len(all) = Cardinality(want)
        /\ \A k \in want : \E i \in 1..Len(all) : all[i] = study_cards[k]
        /\ \A i \in 1..(Len(all) - 1) : all[i].createdAt >= all[i + 1].createdAt

HasPair(c) == c.sessionId # << >> /\ c.sessionKey # << >>

\* C22: no step of ensureSession deletes a session; a contact that presents a
\* cookie pair adds no document and changes nothing but updatedAt of the
\* session it names; a document is added only for a contact without a pair,
\* and it is a complete session document with a fresh id and key, createdAt
\* now and archived false.
C22_SessionFrame ==
  [][/\ DOMAIN sessions \subseteq DOMAIN sessions'
     /\ HasPair(contact') =>
           /\ DOMAIN sessions' = DOMAIN sessions
           /\ \A k \in DOMAIN sessions :
                 /\ DOMAIN sessions'[k] = DOMAIN sessions[k]
                 /\ \A f \in DOMAIN sessions[k] :
                       (k # contact'.sessionId \/ f # "updatedAt")
                          => sessions'[k][f] = sessions[k][f]
     /\ \A k \in DOMAIN sessions' \ DOMAIN sessions :
           /\ ~HasPair(contact')
           /\ k = FreshId(newIds')
           /\ newIds' = newIds + 1
           /\ sessions'[k] = SessionDoc(k, FreshKey(newIds'), sessions'[k].owner, clock)
    ]_vars

\* C26: when a strengthenQuery call has returned, the cache holds no entry
\* whose expiresAt has passed, and a call answered from the cache returned the
\* value of an entry that had not expired.
C26_CacheHoldsNoExpiredEntry ==
  /\ [][strRes' # strRes =>
          \A k \in DOMAIN ENHANCER_CACHE' : ENHANCER_CACHE'[k].expiresAt > clock]_vars
  /\ [][(strRes' # strRes /\ strRes'.hit) =>
          \E k \in DOMAIN ENHANCER_CACHE :
             /\ ENHANCER_CACHE[k].value = strRes'.value
             /\ ENHANCER_CACHE[k].expiresAt > clock]_vars

====
